---- MODULE Spec2Model ----
(***************************************************************************)
(* ISS-Horizon: TLE acquisition (iss_horizon/tle.py), span extraction      *)
(* (iss_horizon/utils.py) and window assembly (iss_horizon/predictor.py).  *)
(*                                                                         *)
(* Strings whose content the code inspects (satellite names, TLE lines)    *)
(* are tuples of one-character strings, so that str.strip, str.lower and   *)
(* str.startswith are computed.  URLs are only compared for equality and   *)
(* stay TLA+ strings.  A fetched text is the tuple of its lines.           *)
(***************************************************************************)
EXTENDS Integers, Sequences, FiniteSets, TLC

VARIABLES
    TLE_CACHE,      \* tle.py _TLE_CACHE: (name, url) -> TLE
    calls,          \* number of fetch_tle calls made so far
    returned,       \* history: (name, url) -> value of the first call that returned
    lastCall,       \* observation of the most recent fetch_tle call
    mask,           \* argument of contiguous_true_spans
    spans,          \* its result
    spansDone,      \* whether contiguous_true_spans has run
    config,         \* the Config fields _windows_from_samples reads
    loc,            \* the Location fields _windows_from_samples reads
    sample_times_utc,   \* arguments of _windows_from_samples
    iss_alt_deg,
    iss_az_deg,
    sun_alt_deg,
    iss_sunlit,
    winResult,      \* outcome of the _windows_from_samples call
    starsArgs,      \* two (peak elevation, duration) pairs to score
    starsResult,    \* their scores by both scoring functions
    samplerArgs,    \* rise, set and step of one pass, in seconds
    samplerResult,  \* samples_utc built by _predict_pass_windows
    orchArgs,       \* arguments of visible_windows_between and what the
                    \* network and the propagation service would answer
    orchResult,     \* outcome of the visible_windows_between call
    ctorArgs,       \* field values handed to VisibilityWindow(...)
    ctorResult,     \* the window constructed from them, or the error raised
    azArgs,         \* azimuth, whole turns added and resolution for az_to_cardinal
    azResult,       \* its label for the azimuth and for the shifted azimuth
    promptArgs,     \* label, default and secret flag of _prompt_text, and
                    \* what the user types
    promptResult,   \* the prompt shown, the function showing it, the value returned
    loopArgs,       \* rise, set and sample_seconds of the sampling loop
    loopState,      \* where the loop stands: cursor, samples appended, last sample
    parseArgs,      \* name asked for and the answer holding the text to scan
    parseResult,    \* outcome of that fetch_tle call
    geoCache,       \* geo.py LocationResolver._cache: stripped query -> Location
    geoCalls,       \* number of resolve calls made so far
    geoReturned,    \* history: stripped query -> Location of the first call that returned
    geoLast,        \* observation of the most recent resolve call
    mailArgs,       \* the SMTPConfig given to send_mail and the SMTP call that fails, if any
    mailResult      \* outcome of send_mail and the SMTP calls it made, in order

tleVars == <<TLE_CACHE, calls, returned, lastCall>>
spanVars == <<mask, spans, spansDone>>
winArgs == <<config, loc, sample_times_utc, iss_alt_deg, iss_az_deg, sun_alt_deg, iss_sunlit>>
winVars == <<config, loc, sample_times_utc, iss_alt_deg, iss_az_deg, sun_alt_deg,
             iss_sunlit, winResult>>
starsVars == <<starsArgs, starsResult>>
samplerVars == <<samplerArgs, samplerResult>>
orchVars == <<orchArgs, orchResult>>
ctorVars == <<ctorArgs, ctorResult>>
azVars == <<azArgs, azResult>>
promptVars == <<promptArgs, promptResult>>
loopVars == <<loopArgs, loopState>>
parseVars == <<parseArgs, parseResult>>
geoVars == <<geoCache, geoCalls, geoReturned, geoLast>>
mailVars == <<mailArgs, mailResult>>
vars == <<TLE_CACHE, calls, returned, lastCall, mask, spans, spansDone,
          config, loc, sample_times_utc, iss_alt_deg, iss_az_deg, sun_alt_deg,
          iss_sunlit, winResult, starsArgs, starsResult, samplerArgs, samplerResult,
          orchArgs, orchResult, ctorArgs, ctorResult, azArgs, azResult,
          promptArgs, promptResult,
          loopArgs, loopState,
          parseArgs, parseResult,
          geoCache, geoCalls, geoReturned, geoLast,
          mailArgs, mailResult>>

\* what each operation leaves alone
notTle == <<spanVars, winVars, starsVars, samplerVars, orchVars,
    ctorVars, azVars, promptVars, loopVars, parseVars, geoVars, mailVars>>
notSpans == <<tleVars, winVars, starsVars, samplerVars, orchVars,
    ctorVars, azVars, promptVars, loopVars, parseVars, geoVars, mailVars>>
notWin == <<tleVars, spanVars, starsVars, samplerVars, orchVars,
    ctorVars, azVars, promptVars, loopVars, parseVars, geoVars, mailVars>>
notStars == <<tleVars, spanVars, winVars, samplerVars, orchVars,
    ctorVars, azVars, promptVars, loopVars, parseVars, geoVars, mailVars>>
notSampler == <<tleVars, spanVars, winVars, starsVars, orchVars,
    ctorVars, azVars, promptVars, loopVars, parseVars, geoVars, mailVars>>
notOrch == <<calls, returned, lastCall, spanVars, winVars, starsVars, samplerVars,
    ctorVars, azVars, promptVars, loopVars, parseVars, geoVars, mailVars>>
notCtor == <<tleVars, spanVars, winVars, starsVars, samplerVars,
    orchVars, azVars, promptVars, loopVars, parseVars, geoVars, mailVars>>
notAz == <<tleVars, spanVars, winVars, starsVars, samplerVars,
    orchVars, ctorVars, promptVars, loopVars, parseVars, geoVars, mailVars>>
notPrompt == <<tleVars, spanVars, winVars, starsVars, samplerVars,
    orchVars, ctorVars, azVars, loopVars, parseVars, geoVars, mailVars>>
notLoop == <<tleVars, spanVars, winVars, starsVars, samplerVars,
    orchVars, ctorVars, azVars, promptVars, parseVars, geoVars, mailVars>>
notParse == <<calls, returned, lastCall, spanVars, winVars, starsVars, samplerVars,
    orchVars, ctorVars, azVars, promptVars, loopVars, geoVars, mailVars>>
notGeo == <<tleVars, spanVars, winVars, starsVars, samplerVars,
    orchVars, ctorVars, azVars, promptVars, loopVars, parseVars, mailVars>>
notMail == <<tleVars, spanVars, winVars, starsVars, samplerVars,
    orchVars, ctorVars, azVars, promptVars, loopVars, parseVars, geoVars>>

(***************************************************************************)
(* Bounds                                                                  *)
(***************************************************************************)
MaxCalls == 2
MaxMaskLen == 6
MaxSamples == 5
MaxPassSeconds == 12
MaxStep == 5
MaxEvents == 4

(***************************************************************************)
(* Strings                                                                 *)
(***************************************************************************)
IsSpace(c) == c = " "

Lower(c) ==
    CASE c = "I" -> "i"
      [] c = "S" -> "s"
      [] c = "Z" -> "z"
      [] c = "A" -> "a"
      [] c = "R" -> "r"
      [] c = "Y" -> "y"
      [] c = "N" -> "n"
      [] c = "O" -> "o"
      [] c = "T" -> "t"
      [] OTHER -> c

\* str.lower()
StrLower(s) == [i \in 1..Len(s) |-> Lower(s[i])]

RECURSIVE LStrip(_)
\* str.lstrip()
LStrip(s) ==
    IF s = <<>> THEN <<>>
    ELSE IF IsSpace(s[1]) THEN LStrip(Tail(s))
    ELSE s

RECURSIVE RStrip(_)
\* str.rstrip()
RStrip(s) ==
    IF s = <<>> THEN <<>>
    ELSE IF IsSpace(s[Len(s)]) THEN RStrip(SubSeq(s, 1, Len(s) - 1))
    ELSE s

\* str.strip()
Strip(s) == RStrip(LStrip(s))

\* str.startswith(prefix)
StartsWith(s, prefix) ==
    /\ Len(s) >= Len(prefix)
    /\ SubSeq(s, 1, Len(prefix)) = prefix

(***************************************************************************)
(* Constants of tle.py.  The two element lines are opaque to the code      *)
(* apart from their "1 " / "2 " markers and are abbreviated to the marker  *)
(* and one distinguishing character.                                       *)
(***************************************************************************)
FALLBACK_STATIONS_URL == "https://celestrak.org/NORAD/elements/stations.txt"
FALLBACK_GP_URL == "https://celestrak.org/NORAD/elements/gp.php?GROUP=stations&FORMAT=tle"
ExampleUrl == "https://example.test/tle.txt"

NameIss == <<"I", "S", "S", " ", "(", "Z", "A", "R", "Y", "A", ")">>
NameIssPadded == <<" ", "i", "s", "s", " ", "(", "z", "a", "r", "y", "a", ")", " ">>
NameNotIss == <<"N", "O", "T", "-", "I", "S", "S">>

MkTLE(n, l1, l2) == [name |-> n, line1 |-> l1, line2 |-> l2]

BUNDLED_ISS_TLE == MkTLE(NameIss, <<"1", " ", "b">>, <<"2", " ", "b">>)

(***************************************************************************)
(* Inputs: requested names and urls, and what the network answers.         *)
(***************************************************************************)
Names == {NameIss, NameIssPadded, NameNotIss}
Urls == {FALLBACK_STATIONS_URL, FALLBACK_GP_URL, ExampleUrl}

\* a current record for the ISS, with a blank line and padded lines
DocIss == << <<" ">>,
             <<"I", "S", "S", " ", "(", "Z", "A", "R", "Y", "A", ")", " ">>,
             <<" ", "1", " ", "f">>,
             <<"2", " ", "f", " ">> >>
\* a record for another satellite only
DocOther == << NameNotIss, <<"1", " ", "o">>, <<"2", " ", "o">> >>
\* the ISS name line followed by a first element line but no second one
DocBroken == << NameIss, <<"1", " ", "f">>, <<"j", "u", "n", "k">> >>

Docs == {DocIss, DocOther, DocBroken}
Statuses == {403, 500}

RespOk(text) == [kind |-> "ok", status |-> 200, text |-> text]
RespHttp(status) == [kind |-> "http", status |-> status, text |-> <<>>]
RespTransport == [kind |-> "transport", status |-> 0, text |-> <<>>]

Responses ==
    {RespOk(d) : d \in Docs} \cup {RespHttp(s) : s \in Statuses} \cup {RespTransport}

(***************************************************************************)
(* tle.py                                                                  *)
(***************************************************************************)
NoTLE == MkTLE(<<>>, <<>>, <<>>)

\* _fetch_text: requests.get raises a RequestException without a response,
\* raise_for_status raises HTTPError for a non-success status.
fetch_text(resp) ==
    CASE resp.kind = "transport" ->
            [exc |-> "RequestException", status |-> 0, text |-> <<>>]
      [] resp.kind = "http" ->
            [exc |-> "HTTPError", status |-> resp.status, text |-> <<>>]
      [] OTHER ->
            [exc |-> "none", status |-> resp.status, text |-> resp.text]

\* lines = [line.strip() for line in text.splitlines() if line.strip()]
RECURSIVE StrippedLines(_)
StrippedLines(text) ==
    IF text = <<>> THEN <<>>
    ELSE IF Strip(text[1]) # <<>>
         THEN <<Strip(text[1])>> \o StrippedLines(Tail(text))
         ELSE StrippedLines(Tail(text))

RecordAtName(lines, index, target) == StrLower(lines[index]) = target

\* the condition of the scan in _parse_tle
RecordAt(lines, index, target) ==
    /\ StrLower(lines[index]) = target
    /\ StartsWith(lines[index + 1], <<"1", " ">>)
    /\ StartsWith(lines[index + 2], <<"2", " ">>)

RECURSIVE ParseScan(_, _, _)
\* for index in range(0, len(lines) - 2), with 1-based indices
ParseScan(lines, index, target) ==
    IF index > Len(lines) - 2
    THEN [exc |-> "TLEFetchError", tle |-> NoTLE]
    ELSE IF RecordAt(lines, index, target)
         THEN [exc |-> "none",
               tle |-> MkTLE(lines[index], lines[index + 1], lines[index + 2])]
         ELSE ParseScan(lines, index + 1, target)

parse_tle(name, text) == ParseScan(StrippedLines(text), 1, StrLower(Strip(name)))

bundled_tle_nostrip(name) ==
    IF StrLower(name) = StrLower(BUNDLED_ISS_TLE.name)
    THEN [found |-> TRUE, tle |-> BUNDLED_ISS_TLE]
    ELSE [found |-> FALSE, tle |-> NoTLE]

\* _bundled_tle
bundled_tle(name) ==
    IF StrLower(Strip(name)) = StrLower(BUNDLED_ISS_TLE.name)
    THEN [found |-> TRUE, tle |-> BUNDLED_ISS_TLE]
    ELSE [found |-> FALSE, tle |-> NoTLE]

RetryOn404(status_code, url) == status_code = 404 /\ url = FALLBACK_STATIONS_URL

\* status_code == 403 and url == _FALLBACK_STATIONS_URL
RetryApplies(status_code, url) == status_code = 403 /\ url = FALLBACK_STATIONS_URL

\* outcomes of a call
Returned(cache, tle, source, exchanges) ==
    [outcome |-> "return", value |-> tle, source |-> source, error |-> "none",
     errorUrl |-> "", exchanges |-> exchanges, cache |-> cache]

Raised(cache, error, errorUrl, exchanges) ==
    [outcome |-> "raise", value |-> NoTLE, source |-> "none", error |-> error,
     errorUrl |-> errorUrl, exchanges |-> exchanges, cache |-> cache]

CacheStoreAlone(cache, cache_key, tle) == [k \in {cache_key} |-> tle]

CacheStoreDropped(cache, cache_key, tle) == cache

\* _TLE_CACHE[cache_key] = tle
CacheStore(cache, cache_key, tle) ==
    [k \in DOMAIN cache \cup {cache_key} |-> IF k = cache_key THEN tle ELSE cache[k]]

FallbackRaises(cache, cache_key, name, failed_url, exchanges) ==
    Raised(cache, "Failed to fetch", failed_url, exchanges)

\* the three identical fall-back blocks: bundled set or "Failed to fetch"
Fallback(cache, cache_key, name, failed_url, exchanges) ==
    LET bundled == bundled_tle(name) IN
    IF bundled.found
    THEN Returned(CacheStore(cache, cache_key, bundled.tle), bundled.tle, "bundled", exchanges)
    ELSE Raised(cache, "Failed to fetch", failed_url, exchanges)

ParsedOrBundled(cache, cache_key, name, text, source_url, exchanges) ==
    LET p == parse_tle(name, text) IN
    IF p.exc = "none"
    THEN Returned(CacheStore(cache, cache_key, p.tle), p.tle, "fetched", exchanges)
    ELSE Fallback(cache, cache_key, name, source_url, exchanges)

\* text fetched: parse, cache and return, or let the not-found error propagate
Parsed(cache, cache_key, name, text, source_url, exchanges) ==
    LET p == parse_tle(name, text) IN
    IF p.exc = "none"
    THEN Returned(CacheStore(cache, cache_key, p.tle), p.tle, "fetched", exchanges)
    ELSE Raised(cache, "not found", source_url, exchanges)

\* fetch_tle(name, url) where the network answers r1 to the first request
\* and r2 to the second
fetch_tle(cache, name, url, r1, r2) ==
    LET cache_key == <<name, url>>
        x1 == <<[url |-> url, resp |-> r1]>>
        x2 == x1 \o <<[url |-> FALLBACK_GP_URL, resp |-> r2]>>
        f1 == fetch_text(r1)
        f2 == fetch_text(r2)
    IN
    IF cache_key \in DOMAIN cache
    THEN Returned(cache, cache[cache_key], "cache", <<>>)
    ELSE IF f1.exc = "none"
    THEN Parsed(cache, cache_key, name, f1.text, url, x1)
    ELSE IF f1.exc = "HTTPError"
    THEN IF RetryApplies(f1.status, url)
         THEN IF f2.exc = "none"
              THEN Parsed(cache, cache_key, name, f2.text, FALLBACK_GP_URL, x2)
              ELSE Fallback(cache, cache_key, name, FALLBACK_GP_URL, x2)
         ELSE Fallback(cache, cache_key, name, url, x1)
    ELSE Fallback(cache, cache_key, name, url, x1)

(***************************************************************************)
(* The TLE state machine: any sequence of fetch_tle calls                  *)
(***************************************************************************)
NoCall ==
    [name |-> <<>>, url |-> "", outcome |-> "none", value |-> NoTLE,
     source |-> "none", error |-> "none", errorUrl |-> "", exchanges |-> <<>>,
     wasCached |-> FALSE, hadReturned |-> FALSE, earlier |-> NoTLE,
     cacheBefore |-> <<>>]

EmptyMap == [k \in {} |-> NoTLE]

Observe(name, url, res) ==
    /\ calls < MaxCalls
    /\ calls' = calls + 1
    /\ TLE_CACHE' = res.cache
    /\ returned' =
          IF res.outcome = "return" /\ <<name, url>> \notin DOMAIN returned
          THEN [k \in DOMAIN returned \cup {<<name, url>>} |->
                   IF k = <<name, url>> THEN res.value ELSE returned[k]]
          ELSE returned
    /\ lastCall' =
          [name |-> name, url |-> url, outcome |-> res.outcome, value |-> res.value,
           source |-> res.source, error |-> res.error, errorUrl |-> res.errorUrl, exchanges |-> res.exchanges,
           wasCached |-> <<name, url>> \in DOMAIN TLE_CACHE,
           hadReturned |-> <<name, url>> \in DOMAIN returned,
           earlier |-> IF <<name, url>> \in DOMAIN returned
                       THEN returned[<<name, url>>] ELSE NoTLE,
           cacheBefore |-> TLE_CACHE]

\* one call of fetch_tle(name, url) while the network would answer r1 to a
\* first request; what it would answer to a second one is drawn when a second
\* request is made
FetchTle ==
    /\ \E name \in Names, url \in Urls, r1 \in Responses :
          \E r2 \in IF Len(fetch_tle(TLE_CACHE, name, url, r1, RespTransport).exchanges) = 2
                     THEN Responses ELSE {RespTransport} :
              Observe(name, url, fetch_tle(TLE_CACHE, name, url, r1, r2))
    /\ UNCHANGED notTle

TleIdle ==
    /\ TLE_CACHE = EmptyMap
    /\ calls = 0
    /\ returned = EmptyMap
    /\ lastCall = NoCall

SpanIdle ==
    /\ mask = <<>>
    /\ spans = <<>>
    /\ spansDone = FALSE

(***************************************************************************)
(* utils.py: contiguous_true_spans.  Indices are Python's, from 0; NoStart *)
(* stands for start = None.                                                *)
(***************************************************************************)
NoStart == -1

CloseNothing(acc, start, length) == acc

\* if start is not None: spans.append((start, len(mask) - 1))
CloseOpenSpan(acc, start, length) ==
    IF start # NoStart THEN Append(acc, <<start, length - 1>>) ELSE acc

RECURSIVE SpanLoop(_, _, _, _)
\* for index, value in enumerate(mask)
SpanLoop(m, index, start, acc) ==
    IF index >= Len(m)
    THEN CloseOpenSpan(acc, start, Len(m))
    ELSE LET value == m[index + 1] IN
         IF value /\ start = NoStart
         THEN SpanLoop(m, index + 1, index, acc)
         ELSE IF ~value /\ start # NoStart
         THEN SpanLoop(m, index + 1, NoStart, Append(acc, <<start, index - 1>>))
         ELSE SpanLoop(m, index + 1, start, acc)

contiguous_true_spans(m) == SpanLoop(m, 0, NoStart, <<>>)

BoolSeqs(maxLen) == UNION {[1..n -> BOOLEAN] : n \in 0..maxLen}

SpanInputs ==
    /\ mask \in BoolSeqs(MaxMaskLen)
    /\ spans = <<>>
    /\ spansDone = FALSE

\* the call contiguous_true_spans(mask)
ContiguousTrueSpans ==
    /\ ~spansDone
    /\ spans' = contiguous_true_spans(mask)
    /\ spansDone' = TRUE
    /\ UNCHANGED <<mask, notSpans>>

(***************************************************************************)
(* predictor.py: _windows_from_samples.  Angles are whole degrees, a       *)
(* datetime is an instant in seconds with the UTC offset of its tzinfo,    *)
(* a timedelta is a number of seconds.                                     *)
(***************************************************************************)
UTC == 0
DateTime(t, tz) == [t |-> t, tz |-> tz]

\* datetime.astimezone: the same instant, shown in another zone
AsTimezone(dt, tz) == [t |-> dt.t, tz |-> tz]

\* aware datetimes subtract and compare by instant
Minus(a, b) == a.t - b.t

visibility_stars_short_bonus(peak_elevation_deg, duration_seconds) ==
    LET score == 1 + (IF peak_elevation_deg >= 20 THEN 1 ELSE 0)
                   + (IF peak_elevation_deg >= 40 THEN 1 ELSE 0)
                   + (IF peak_elevation_deg >= 65 THEN 1 ELSE 0)
                   + (IF duration_seconds <= 120 THEN 1 ELSE 0)
    IN IF score < 5 THEN (IF score > 1 THEN score ELSE 1) ELSE 5

visibility_stars_above_40(peak_elevation_deg, duration_seconds) ==
    LET score == 1 + (IF peak_elevation_deg >= 20 THEN 1 ELSE 0)
                   + (IF peak_elevation_deg > 40 THEN 1 ELSE 0)
                   + (IF peak_elevation_deg >= 65 THEN 1 ELSE 0)
                   + (IF duration_seconds >= 120 THEN 1 ELSE 0)
    IN IF score < 5 THEN (IF score > 1 THEN score ELSE 1) ELSE 5

\* ISSPredictor._visibility_stars
visibility_stars(peak_elevation_deg, duration_seconds) ==
    LET score == 1 + (IF peak_elevation_deg >= 20 THEN 1 ELSE 0)
                   + (IF peak_elevation_deg >= 40 THEN 1 ELSE 0)
                   + (IF peak_elevation_deg >= 65 THEN 1 ELSE 0)
                   + (IF duration_seconds >= 120 THEN 1 ELSE 0)
        capped == IF score < 5 THEN score ELSE 5
    IN IF capped > 1 THEN capped ELSE 1

VisibleAtAnyElevation(cfg, alt, sun, lit, i) ==
    sun[i + 1] <= cfg.twilight_deg /\ lit[i + 1]

VisibleAbove(cfg, alt, sun, lit, i) ==
    /\ alt[i + 1] > cfg.min_elev_deg
    /\ sun[i + 1] <= cfg.twilight_deg
    /\ lit[i + 1]

\* the mask expression for sample i (from 0)
Visible(cfg, alt, sun, lit, i) ==
    /\ alt[i + 1] >= cfg.min_elev_deg
    /\ sun[i + 1] <= cfg.twilight_deg
    /\ lit[i + 1]

VisibleMask(cfg, n, alt, sun, lit) == [k \in 1..n |-> Visible(cfg, alt, sun, lit, k - 1)]

TooShortOrEqual(duration, cfg) == duration <= cfg.min_window_seconds

\* if duration.total_seconds() < self.config.min_window_seconds: continue
TooShort(duration, cfg) == duration < cfg.min_window_seconds

RECURSIVE LastMaxFrom(_, _, _, _)
LastMaxFrom(alt, idx, end_idx, best) ==
    IF idx > end_idx THEN best
    ELSE IF alt[idx + 1] >= alt[best + 1]
         THEN LastMaxFrom(alt, idx + 1, end_idx, idx)
         ELSE LastMaxFrom(alt, idx + 1, end_idx, best)

RECURSIVE MaxFrom(_, _, _, _)
\* max(iterable, key=...) keeps the first item whose key is the greatest
MaxFrom(alt, idx, end_idx, best) ==
    IF idx > end_idx THEN best
    ELSE IF alt[idx + 1] > alt[best + 1]
         THEN MaxFrom(alt, idx + 1, end_idx, idx)
         ELSE MaxFrom(alt, idx + 1, end_idx, best)

\* peak_idx = max(span_indices, key=lambda idx: iss_alt_deg[idx])
PeakIdx(alt, start_idx, end_idx) == MaxFrom(alt, start_idx + 1, end_idx, start_idx)

NaiveTz == 99

WindowAcceptedByStars(w) == 1 <= w.visibility_stars /\ w.visibility_stars <= 5

\* VisibilityWindow.__post_init__: the checks a window passes
WindowAccepted(w) ==
    /\ w.start_local.tz # NaiveTz
    /\ w.end_local.tz # NaiveTz
    /\ w.peak_local.tz # NaiveTz
    /\ ~(w.end_local.t < w.start_local.t)
    /\ ~(w.duration < 0)
    /\ 1 <= w.visibility_stars /\ w.visibility_stars <= 5

\* the VisibilityWindow built for the span (start_idx, end_idx); the three
\* indices are kept with it
BuildWindow(location, times, alt, az, start_idx, end_idx) ==
    LET start_utc == times[start_idx + 1]
        end_utc == times[end_idx + 1]
        duration == Minus(end_utc, start_utc)
        peak_idx == PeakIdx(alt, start_idx, end_idx)
    IN [start_local |-> AsTimezone(start_utc, location.timezone),
        end_local |-> AsTimezone(end_utc, location.timezone),
        peak_local |-> AsTimezone(times[peak_idx + 1], location.timezone),
        duration |-> duration,
        peak_elevation_deg |-> alt[peak_idx + 1],
        start_azimuth_deg |-> az[start_idx + 1],
        peak_azimuth_deg |-> az[peak_idx + 1],
        end_azimuth_deg |-> az[end_idx + 1],
        visibility_stars |-> visibility_stars(alt[peak_idx + 1], duration),
        start_idx |-> start_idx, end_idx |-> end_idx, peak_idx |-> peak_idx]

RECURSIVE WindowLoop(_, _, _, _, _, _, _, _)
\* for start_idx, end_idx in contiguous_true_spans(mask)
WindowLoop(cfg, location, times, alt, az, todo, windows, examined) ==
    IF todo = <<>>
    THEN [outcome |-> "return", error |-> "none", windows |-> windows,
          examined |-> examined]
    ELSE LET start_idx == todo[1][1]
             end_idx == todo[1][2]
             duration == Minus(times[end_idx + 1], times[start_idx + 1])
             w == BuildWindow(location, times, alt, az, start_idx, end_idx)
         IN IF TooShort(duration, cfg)
            THEN WindowLoop(cfg, location, times, alt, az, Tail(todo), windows,
                            examined + 1)
            ELSE IF ~WindowAccepted(w)
            THEN [outcome |-> "raise", error |-> "ValueError", windows |-> <<>>,
                  examined |-> examined + 1]
            ELSE WindowLoop(cfg, location, times, alt, az, Tail(todo),
                            Append(windows, w), examined + 1)

SameLengthButSunlit(n, alt, az, sun, lit) ==
    n = Len(alt) /\ Len(alt) = Len(az) /\ Len(az) = Len(sun)

\* n == len(iss_alt_deg) == len(iss_az_deg) == len(sun_alt_deg) == len(iss_sunlit)
SameLength(n, alt, az, sun, lit) ==
    n = Len(alt) /\ Len(alt) = Len(az) /\ Len(az) = Len(sun) /\ Len(sun) = Len(lit)

\* the outcome r of the loop together with the mask it ran on
WithMask(r, m) ==
    [outcome |-> r.outcome, error |-> r.error, windows |-> r.windows,
     examined |-> r.examined, mask |-> m]

\* _windows_from_samples; examined counts the spans the loop looked at.
\* Indexing a list past its end raises IndexError.
windows_from_samples(cfg, location, times, alt, az, sun, lit) ==
    LET n == Len(times) IN
    IF ~SameLength(n, alt, az, sun, lit)
    THEN [outcome |-> "raise", error |-> "PredictionError", windows |-> <<>>,
          examined |-> 0, mask |-> <<>>]
    ELSE IF n = 0
    THEN [outcome |-> "return", error |-> "none", windows |-> <<>>, examined |-> 0,
          mask |-> <<>>]
    ELSE IF Len(alt) < n \/ Len(az) < n \/ Len(sun) < n \/ Len(lit) < n
    THEN [outcome |-> "raise", error |-> "IndexError", windows |-> <<>>,
          examined |-> 0, mask |-> <<>>]
    ELSE LET m == VisibleMask(cfg, n, alt, sun, lit) IN
         WithMask(WindowLoop(cfg, location, times, alt, az,
                             contiguous_true_spans(m), <<>>, 0), m)

(***************************************************************************)
(* Inputs of _windows_from_samples                                         *)
(***************************************************************************)
MinElevDeg == 15
TwilightDeg == -12
MinWindowSeconds == {-20, 0, 20}
Steps == {10, 20}
LocalOffsets == {-3}

Kind(alt, sun, lit) == [alt |-> alt, sun |-> sun, lit |-> lit]
\* visible exactly at both thresholds, visible well above them, and one
\* kind failing each single condition
SampleKinds ==
    {Kind(15, -12, TRUE), Kind(24, -16, TRUE),
     Kind(14, -16, TRUE), Kind(24, -11, TRUE), Kind(24, -16, FALSE)}

Arrays == {"sample_times_utc", "iss_alt_deg", "iss_az_deg", "sun_alt_deg", "iss_sunlit"}

\* array a with its last element dropped (delta = -1) or one more (delta = 1)
Resize(a, delta, extra) ==
    IF delta = 1 THEN Append(a, extra)
    ELSE IF delta = -1 /\ Len(a) > 0 THEN SubSeq(a, 1, Len(a) - 1)
    ELSE a

TimeAt(i, n, step, lastGap) ==
    IF i = n /\ n >= 2 THEN (n - 2) * step + lastGap ELSE (i - 1) * step

WinInputs ==
    \E n \in 0..MaxSamples :
    \E kinds \in [1..n -> SampleKinds] :
    \E step \in Steps, mw \in MinWindowSeconds, tz \in LocalOffsets :
    \E lastGap \in {step, 5, -5} :
    \E odd \in Arrays \cup {"none"}, delta \in {-1, 0, 1} :
        LET D(a) == IF odd = a THEN delta ELSE 0 IN
        /\ (odd = "none") = (delta = 0)
        /\ delta = -1 => n > 0
        /\ odd # "none" => (mw = 20 /\ step = 10 /\ lastGap = step)
        /\ lastGap = -5 => (odd = "none" /\ step = 10 /\ mw <= 0)
        /\ mw < 0 => lastGap = -5
        /\ config = [min_elev_deg |-> MinElevDeg, twilight_deg |-> TwilightDeg,
                     min_window_seconds |-> mw]
        /\ loc = [timezone |-> tz]
        /\ sample_times_utc =
              Resize([i \in 1..n |-> DateTime(TimeAt(i, n, step, lastGap), UTC)],
                     D("sample_times_utc"), DateTime(n * step, UTC))
        /\ iss_alt_deg = Resize([i \in 1..n |-> kinds[i].alt], D("iss_alt_deg"), 24)
        /\ iss_az_deg = Resize([i \in 1..n |-> 180 + 20 * i], D("iss_az_deg"), 0)
        /\ sun_alt_deg = Resize([i \in 1..n |-> kinds[i].sun], D("sun_alt_deg"), -16)
        /\ iss_sunlit = Resize([i \in 1..n |-> kinds[i].lit], D("iss_sunlit"), TRUE)
        /\ winResult = [outcome |-> "none", error |-> "none", windows |-> <<>>,
                        examined |-> 0, mask |-> <<>>]

WinIdle ==
    /\ config = [min_elev_deg |-> MinElevDeg, twilight_deg |-> TwilightDeg,
                 min_window_seconds |-> 20]
    /\ loc = [timezone |-> UTC]
    /\ sample_times_utc = <<>>
    /\ iss_alt_deg = <<>>
    /\ iss_az_deg = <<>>
    /\ sun_alt_deg = <<>>
    /\ iss_sunlit = <<>>
    /\ winResult = [outcome |-> "none", error |-> "none", windows |-> <<>>,
                    examined |-> 0, mask |-> <<>>]

\* the call _windows_from_samples(loc, sample_times_utc, ...)
WindowsFromSamples ==
    /\ winResult.outcome = "none"
    /\ winResult' = windows_from_samples(config, loc, sample_times_utc, iss_alt_deg,
                                         iss_az_deg, sun_alt_deg, iss_sunlit)
    /\ UNCHANGED <<winArgs, notWin>>

(***************************************************************************)
(* models.py: constructing a VisibilityWindow from given field values      *)
(***************************************************************************)
\* VisibilityWindow(...): the dataclass __init__ followed by __post_init__
VisibilityWindow(fields) ==
    IF WindowAccepted(fields)
    THEN [outcome |-> "return", error |-> "none"]
    ELSE [outcome |-> "raise", error |-> "ValueError"]

Zones == {UTC, -3, NaiveTz}
Instants == {0, 10}

PlainWindow ==
    [start_local |-> DateTime(0, UTC), end_local |-> DateTime(0, UTC),
     peak_local |-> DateTime(0, UTC), duration |-> 0, visibility_stars |-> 1]

\* no constructor call is pending
CtorIdle ==
    /\ ctorArgs = PlainWindow
    /\ ctorResult = [outcome |-> "idle", error |-> "none"]

\* a pending constructor call with any field values, next to one plain pass
CtorInputs ==
    \/ CtorIdle
    \/ /\ config.min_window_seconds = 0
       /\ sample_times_utc = <<DateTime(0, UTC), DateTime(10, UTC)>>
       /\ iss_alt_deg = <<24, 24>>
       /\ sun_alt_deg = <<-16, -16>>
       /\ iss_sunlit = <<TRUE, TRUE>>
       /\ \E s \in Instants, e \in Instants, zs \in Zones, ze \in Zones, zp \in Zones,
             d \in {-10, 0, 10}, stars \in {0, 1, 5, 6} :
             ctorArgs = [start_local |-> DateTime(s, zs), end_local |-> DateTime(e, ze),
                         peak_local |-> DateTime(0, zp), duration |-> d,
                         visibility_stars |-> stars]
       /\ ctorResult = [outcome |-> "none", error |-> "none"]

\* the call VisibilityWindow(start_local=..., ...)
ConstructWindow ==
    /\ ctorResult.outcome = "none"
    /\ ctorResult' = VisibilityWindow(ctorArgs)
    /\ UNCHANGED <<ctorArgs, notCtor>>

(***************************************************************************)
(* utils.py: visibility_stars, next to ISSPredictor._visibility_stars      *)
(* above.  Degrees and seconds are whole numbers.                          *)
(***************************************************************************)
Min2(a, b) == IF a < b THEN a ELSE b
Max2(a, b) == IF a > b THEN a ELSE b

utils_visibility_stars_above(peak_elevation_deg, duration_seconds) ==
    LET score == 1 + (IF peak_elevation_deg > 20 THEN 1 ELSE 0)
                   + (IF peak_elevation_deg > 40 THEN 1 ELSE 0)
                   + (IF peak_elevation_deg > 65 THEN 1 ELSE 0)
                   + (IF duration_seconds > 120 THEN 1 ELSE 0)
    IN Max2(1, Min2(score, 5))

\* utils.visibility_stars
utils_visibility_stars(peak_elevation_deg, duration_seconds) ==
    LET score == 1 + (IF peak_elevation_deg >= 20 THEN 1 ELSE 0)
                   + (IF peak_elevation_deg >= 40 THEN 1 ELSE 0)
                   + (IF peak_elevation_deg >= 65 THEN 1 ELSE 0)
                   + (IF duration_seconds >= 120 THEN 1 ELSE 0)
    IN Max2(1, Min2(score, 5))

\* values on, next to and away from every threshold
PeakElevations == {-5, 0, 19, 20, 21, 39, 40, 41, 64, 65, 66, 90}
Durations == {0, 119, 120, 121, 240}

NoScores == [done |-> FALSE, utils |-> <<>>, predictor |-> <<>>, stored |-> <<>>]

\* the rating _windows_from_samples stores in the window of a span of two
\* visible samples d seconds apart with peak elevation p
StoredRating(p, d) ==
    LET r == windows_from_samples(
                [min_elev_deg |-> p, twilight_deg |-> TwilightDeg,
                 min_window_seconds |-> 0],
                [timezone |-> UTC],
                <<DateTime(0, UTC), DateTime(d, UTC)>>,
                <<p, p>>, <<180, 180>>, <<TwilightDeg, TwilightDeg>>, <<TRUE, TRUE>>)
    IN r.windows[1].visibility_stars

StarsInputs ==
    /\ starsArgs \in [peak : PeakElevations, duration : Durations]
                     \X [peak : PeakElevations, duration : Durations]
    /\ starsResult = NoScores

StarsIdle ==
    /\ starsArgs = << [peak |-> 0, duration |-> 0], [peak |-> 0, duration |-> 0] >>
    /\ starsResult = NoScores

\* both scoring functions applied to both pairs, and the window assembly
\* run on a span with each pair's peak elevation and duration
VisibilityStars ==
    /\ ~starsResult.done
    /\ starsResult' =
          [done |-> TRUE,
           utils |-> [i \in 1..2 |->
                        utils_visibility_stars(starsArgs[i].peak, starsArgs[i].duration)],
           predictor |-> [i \in 1..2 |->
                        visibility_stars(starsArgs[i].peak, starsArgs[i].duration)],
           stored |-> [i \in 1..2 |->
                        StoredRating(starsArgs[i].peak, starsArgs[i].duration)]]
    /\ UNCHANGED <<starsArgs, notStars>>

(***************************************************************************)
(* predictor.py: the sampling loop of _predict_pass_windows.  Instants are *)
(* whole seconds.                                                          *)
(***************************************************************************)
RECURSIVE SampleLoop(_, _, _, _)
\* while cursor <= set_dt: samples_utc.append(cursor); cursor += step
SampleLoop(cursor, set_dt, step, samples) ==
    IF cursor <= set_dt
    THEN SampleLoop(cursor + step, set_dt, step, Append(samples, cursor))
    ELSE samples

CloseSamplesAlways(samples, set_dt) == Append(samples, set_dt)

\* if samples_utc[-1] != set_dt: samples_utc.append(set_dt)
CloseSamples(samples, set_dt) ==
    IF samples[Len(samples)] # set_dt THEN Append(samples, set_dt) ELSE samples

\* samples_utc for rise_dt <= set_dt and a positive step
pass_samples(rise_dt, set_dt, step) ==
    CloseSamples(SampleLoop(rise_dt, set_dt, step, <<>>), set_dt)

RiseTimes == {0, 7}

SamplerInputs ==
    /\ \E rise \in RiseTimes, len \in 0..MaxPassSeconds, step \in 1..MaxStep :
          samplerArgs = [rise |-> rise, set |-> rise + len, step |-> step]
    /\ samplerResult = [done |-> FALSE, samples |-> <<>>]

SamplerIdle ==
    /\ samplerArgs = [rise |-> 0, set |-> 0, step |-> 1]
    /\ samplerResult = [done |-> FALSE, samples |-> <<>>]

\* the sampling of one pass
SamplePass ==
    /\ ~samplerResult.done
    /\ samplerResult' =
          [done |-> TRUE,
           samples |-> pass_samples(samplerArgs.rise, samplerArgs.set, samplerArgs.step)]
    /\ UNCHANGED <<samplerArgs, notSampler>>

(***************************************************************************)
(* predictor.py: visible_windows_between and _predict_pass_windows.  The   *)
(* propagation service is outside the program: its events, its geometry    *)
(* and its failures are inputs.                                            *)
(***************************************************************************)
Rise == 0
Culminate == 1
Set == 2
NoRise == -1

\* _single_utc_datetime: an aware UTC datetime for an event time
single_utc_datetime(t) == DateTime(t, UTC)

RECURSIVE InsertByStartDescending(_, _)
InsertByStartDescending(sorted, w) ==
    IF sorted = <<>> THEN <<w>>
    ELSE IF sorted[1].start_local.t >= w.start_local.t
         THEN <<sorted[1]>> \o InsertByStartDescending(Tail(sorted), w)
         ELSE <<w>> \o sorted

RECURSIVE InsertByStart(_, _)
\* w goes after every window that does not start later: sorted() is stable
InsertByStart(sorted, w) ==
    IF sorted = <<>> THEN <<w>>
    ELSE IF sorted[1].start_local.t <= w.start_local.t
         THEN <<sorted[1]>> \o InsertByStart(Tail(sorted), w)
         ELSE <<w>> \o sorted

RECURSIVE SortFrom(_, _)
SortFrom(ws, acc) ==
    IF ws = <<>> THEN acc ELSE SortFrom(Tail(ws), InsertByStart(acc, ws[1]))

Unsorted(ws) == ws

\* sorted(all_windows, key=lambda item: item.start_local)
SortedByStart(ws) == SortFrom(ws, <<>>)

\* what the propagation service reports for sample i of n in a pass
GeometryVisible(profile, i, n) ==
    CASE profile = "all" -> TRUE
      [] profile = "none" -> FALSE
      [] OTHER -> i # (n + 1) \div 2

\* _predict_pass_windows; failure is what goes wrong with this pass
predict_pass_windows(cfg, location, rise_time, set_time, profile, failure) ==
    LET rise_dt == single_utc_datetime(rise_time)
        set_dt == single_utc_datetime(set_time)
        samples == pass_samples(rise_dt.t, set_dt.t, cfg.sample_seconds)
        n == Len(samples)
        lit_n == IF failure = "mismatch" THEN n - 1 ELSE n
    IN IF failure = "geometry"
       THEN [outcome |-> "raise", error |-> "Exception", windows |-> <<>>]
       ELSE LET r == windows_from_samples(
                        cfg, location,
                        [i \in 1..n |-> DateTime(samples[i], UTC)],
                        [i \in 1..n |-> 24 + i],
                        [i \in 1..n |-> 180 + 10 * i],
                        [i \in 1..n |-> -16],
                        [i \in 1..lit_n |-> GeometryVisible(profile, i, n)])
            IN [outcome |-> r.outcome, error |-> r.error, windows |-> r.windows]

PassReadyOnAnySet(event_type, rise_time) == event_type = Set

\* elif event_type == 2 and rise_time is not None
PassReady(event_type, rise_time) == event_type = Set /\ rise_time # NoRise

RECURSIVE EventLoop(_, _, _, _, _, _, _)
\* for event_time, event_type in zip(event_times, event_types)
EventLoop(cfg, location, events, rise_time, acc, profiles, fail) ==
    IF events = <<>>
    THEN acc
    ELSE LET event_time == events[1].t
             event_type == events[1].type
             k == Len(acc.passes) + 1
         IN IF event_type = Rise
            THEN EventLoop(cfg, location, Tail(events), event_time, acc, profiles, fail)
            ELSE IF PassReady(event_type, rise_time)
            THEN LET pw == predict_pass_windows(
                              cfg, location, rise_time, event_time, profiles[k],
                              IF fail.at = k THEN fail.kind ELSE "none")
                     seen == [acc EXCEPT !.passes = Append(@, <<rise_time, event_time>>)]
                 IN IF pw.outcome = "raise"
                    THEN [seen EXCEPT !.exc = pw.error]
                    ELSE EventLoop(cfg, location, Tail(events), NoRise,
                                   [seen EXCEPT !.all_windows = @ \o pw.windows,
                                                !.passWindows = Append(@, pw.windows)],
                                   profiles, fail)
            ELSE EventLoop(cfg, location, Tail(events), rise_time, acc, profiles, fail)

OrchOutcomeSwallowed(outcome, error, windows, cache, fetches, requests, eventQueries, loop) ==
    [outcome |-> "return", error |-> "none", windows |-> windows, cache |-> cache,
     fetches |-> fetches, requests |-> requests, eventQueries |-> eventQueries,
     passes |-> loop.passes, passWindows |-> loop.passWindows]

OrchOutcome(outcome, error, windows, cache, fetches, requests, eventQueries, loop) ==
    [outcome |-> outcome, error |-> error, windows |-> windows, cache |-> cache,
     fetches |-> fetches, requests |-> requests, eventQueries |-> eventQueries,
     passes |-> loop.passes, passWindows |-> loop.passWindows]

NoLoop == [exc |-> "none", all_windows |-> <<>>, passes |-> <<>>, passWindows |-> <<>>]

EmptyRangeStrict(start_utc, end_utc) == end_utc.t < start_utc.t

\* if end_utc <= start_utc: return []
EmptyRange(start_utc, end_utc) == end_utc.t <= start_utc.t

\* visible_windows_between; r1 is what the network would answer to a request
visible_windows_between(cache, cfg, location, start_utc, end_utc, r1, events, profiles, fail) ==
    IF start_utc.tz = NaiveTz \/ end_utc.tz = NaiveTz
    THEN OrchOutcome("raise", "PredictionError", <<>>, cache, 0, 0, 0, NoLoop)
    ELSE IF EmptyRange(start_utc, end_utc)
    THEN OrchOutcome("return", "none", <<>>, cache, 0, 0, 0, NoLoop)
    ELSE LET f == fetch_tle(cache, cfg.tle_name, cfg.tle_url, r1, RespTransport)
             loop == EventLoop(cfg, location, events, NoRise, NoLoop, profiles, fail)
         IN IF f.outcome = "raise"
            THEN OrchOutcome("raise", "PredictionError", <<>>, f.cache, 1,
                             Len(f.exchanges), 0, NoLoop)
            ELSE IF fail.kind = "events"
            THEN OrchOutcome("raise", "PredictionError", <<>>, f.cache, 1,
                             Len(f.exchanges), 1, NoLoop)
            ELSE IF loop.exc # "none"
            THEN OrchOutcome("raise", "PredictionError", <<>>, f.cache, 1,
                             Len(f.exchanges), 1, loop)
            ELSE OrchOutcome("return", "none", SortedByStart(loop.all_windows),
                             f.cache, 1, Len(f.exchanges), 1, loop)

(***************************************************************************)
(* Inputs of visible_windows_between                                       *)
(***************************************************************************)
OrchConfig ==
    [tle_name |-> NameIss, tle_url |-> FALLBACK_GP_URL,
     min_elev_deg |-> MinElevDeg, twilight_deg |-> TwilightDeg,
     sample_seconds |-> 10, min_window_seconds |-> 20]

\* a range holding every event, an empty one, a reversed one, a naive one
Ranges ==
    {<<DateTime(0, UTC), DateTime(1000, UTC)>>,
     <<DateTime(500, UTC), DateTime(500, -3)>>,
     <<DateTime(500, UTC), DateTime(0, UTC)>>,
     <<DateTime(0, NaiveTz), DateTime(1000, UTC)>>}

FullRange == <<DateTime(0, UTC), DateTime(1000, UTC)>>

Profiles == {"all", "none", "split"}
MaxPasses == MaxEvents \div 2

\* events arrive in time order, one minute apart
EventSeqs ==
    UNION {[1..n -> {Rise, Culminate, Set}] : n \in 0..MaxEvents}

Failures ==
    {[kind |-> "none", at |-> 0], [kind |-> "events", at |-> 0]}
        \cup [kind : {"geometry", "mismatch"}, at : 1..MaxPasses]

NetAnswers == {RespOk(DocIss), RespOk(DocOther), RespTransport}

CachedIss == [k \in {<<NameIss, FALLBACK_GP_URL>>} |-> BUNDLED_ISS_TLE]

NoOrchResult ==
    [outcome |-> "none", error |-> "none", windows |-> <<>>, cache |-> EmptyMap,
     fetches |-> 0, requests |-> 0, eventQueries |-> 0,
     passes |-> <<>>, passWindows |-> <<>>]

OrchInputs ==
    /\ \E range \in Ranges, r1 \in NetAnswers, types \in EventSeqs,
          profiles \in [1..(MaxPasses + 1) -> Profiles], fail \in Failures,
          cache \in {EmptyMap, CachedIss} :
          /\ fail.kind # "none" =>
                (range = FullRange /\ r1 = RespOk(DocIss) /\ cache = EmptyMap)
          /\ profiles[MaxPasses + 1] = "none"
          /\ TLE_CACHE = cache
          /\ orchArgs =
                [config |-> OrchConfig, loc |-> [timezone |-> -3],
                 start_utc |-> range[1], end_utc |-> range[2], r1 |-> r1,
                 events |-> [i \in 1..Len(types) |-> [t |-> 60 * i, type |-> types[i]]],
                 profiles |-> profiles, fail |-> fail]
    /\ calls = 0
    /\ returned = EmptyMap
    /\ lastCall = NoCall
    /\ orchResult = NoOrchResult

OrchIdle ==
    /\ orchArgs =
          [config |-> OrchConfig, loc |-> [timezone |-> UTC],
           start_utc |-> DateTime(0, UTC), end_utc |-> DateTime(0, UTC),
           r1 |-> RespTransport, events |-> <<>>,
           profiles |-> [i \in 1..(MaxPasses + 1) |-> "none"],
           fail |-> [kind |-> "none", at |-> 0]]
    /\ orchResult = NoOrchResult

\* the call visible_windows_between(loc, start_utc, end_utc)
VisibleWindowsBetween ==
    /\ orchResult.outcome = "none"
    /\ orchResult' =
          visible_windows_between(TLE_CACHE, orchArgs.config, orchArgs.loc,
                                  orchArgs.start_utc, orchArgs.end_utc, orchArgs.r1,
                                  orchArgs.events, orchArgs.profiles, orchArgs.fail)
    /\ TLE_CACHE' = orchResult'.cache
    /\ UNCHANGED <<orchArgs, notOrch>>

(***************************************************************************)
(* utils.py: az_to_cardinal.  Azimuths are in hundredths of a degree, so   *)
(* that every bucket boundary (11.25 degrees at 16 points) is a whole      *)
(* number.                                                                 *)
(***************************************************************************)
MaxTurns == 2

FullTurn == 36000

\* labels_map.get(points); <<>> stands for None
labels_map(points) ==
    CASE points = 4 -> <<"N", "E", "S", "W">>
      [] points = 8 -> <<"N", "NE", "E", "SE", "S", "SW", "W", "NW">>
      [] points = 16 -> <<"N", "NNE", "NE", "ENE", "E", "ESE", "SE", "SSE",
                          "S", "SSW", "SW", "WSW", "W", "WNW", "NW", "NNW">>
      [] OTHER -> <<>>

Abs(x) == IF x < 0 THEN -x ELSE x

NormalizedAbs(az_deg) == Abs(az_deg) % FullTurn

\* normalized = az_deg % 360.0: the result has the sign of the divisor
Normalized(az_deg) == az_deg % FullTurn

BucketIndexFloor(normalized, points) ==
    (normalized \div (FullTurn \div points)) % points

\* index = int((normalized + bucket_size / 2.0) // bucket_size) % points
BucketIndex(normalized, points) ==
    LET bucket_size == FullTurn \div points
    IN ((normalized + bucket_size \div 2) \div bucket_size) % points

az_to_cardinal(az_deg, points) ==
    LET labels == labels_map(points)
    IN IF labels = <<>>
       THEN [outcome |-> "raise", value |-> "ValueError"]
       ELSE [outcome |-> "return",
             value |-> labels[BucketIndex(Normalized(az_deg), points) + 1]]

\* every label centre and bucket boundary of the three resolutions, and the
\* hundredth of a degree on either side of each
Azimuths == {1125 * i + d : i \in 0..32, d \in {-1, 0, 1}}

Resolutions == {4, 8, 12, 16}

NoLabel == [outcome |-> "none", value |-> "none"]

AzInputs ==
    /\ \E az \in Azimuths, k \in (-MaxTurns)..MaxTurns, points \in Resolutions :
          azArgs = [az_deg |-> az, k |-> k, points |-> points]
    /\ azResult = [done |-> FALSE, base |-> NoLabel, shifted |-> NoLabel]

AzIdle ==
    /\ azArgs = [az_deg |-> 0, k |-> 0, points |-> 16]
    /\ azResult = [done |-> FALSE, base |-> NoLabel, shifted |-> NoLabel]

\* the calls az_to_cardinal(a, p) and az_to_cardinal(a + 360 * k, p)
AzToCardinal ==
    /\ ~azResult.done
    /\ azResult' =
          [done |-> TRUE,
           base |-> az_to_cardinal(azArgs.az_deg, azArgs.points),
           shifted |-> az_to_cardinal(azArgs.az_deg + FullTurn * azArgs.k,
                                      azArgs.points)]
    /\ UNCHANGED <<azArgs, notAz>>

(***************************************************************************)
(* cli.py: _prompt_text.  Label, default, prompt and typed text are tuples *)
(* of characters.                                                          *)
(***************************************************************************)
\* suffix = f" [{default}]" if default else ""
Suffix(default) ==
    IF default # <<>> THEN <<" ", "[">> \o default \o <<"]">> ELSE <<>>

\* prompt = f"{label}{suffix}: "
Prompt(label, default) == label \o Suffix(default) \o <<":", " ">>

\* _prompt_text(label, default, secret=secret) when the user types raw; a
\* default of None takes the branches of the empty string
prompt_text(label, default, secret, raw) ==
    LET prompt == Prompt(label, default)
        value == Strip(raw)
    IN [done |-> TRUE,
        prompt |-> prompt,
        via |-> IF secret THEN "getpass" ELSE "input",
        value |-> IF value # <<>> THEN value ELSE default]

PromptLabels == {<<"P", "w">>, <<"T", "o">>}
PromptDefaults ==
    {<<>>, <<"s", "3">>, <<"P", "w">>, <<"*", "*", "*", "*", "*", "*", "*", "*">>}
TypedTexts ==
    {<<>>, <<" ">>, <<"n", "e", "w">>, <<" ", "x", " ">>, <<"s", "3">>, <<"*">>}

NoPrompt == [done |-> FALSE, prompt |-> <<>>, via |-> "none", value |-> <<>>]

PromptInputs ==
    /\ \E label \in PromptLabels, default \in PromptDefaults, secret \in BOOLEAN,
          raw \in TypedTexts :
          promptArgs = [label |-> label, default |-> default, secret |-> secret,
                        raw |-> raw]
    /\ promptResult = NoPrompt

PromptIdle ==
    /\ promptArgs = [label |-> <<>>, default |-> <<>>, secret |-> FALSE, raw |-> <<>>]
    /\ promptResult = NoPrompt

\* the call _prompt_text(label, default, secret=secret)
PromptText ==
    /\ ~promptResult.done
    /\ promptResult' = prompt_text(promptArgs.label, promptArgs.default,
                                   promptArgs.secret, promptArgs.raw)
    /\ UNCHANGED <<promptArgs, notPrompt>>

(***************************************************************************)
(* predictor.py: the sampling loop of _predict_pass_windows, one           *)
(* iteration at a time, for any sample_seconds.  Config checks no sign.    *)
(***************************************************************************)
MaxLoopCount == 6

\* datetime.min and datetime.max on the model's scale of seconds
MinInstant == -10
MaxInstant == 50

LoopSteps == ((-MaxStep)..MaxStep) \cup {40}

LoopInputs ==
    /\ \E rise \in RiseTimes, len \in 0..MaxPassSeconds, step \in LoopSteps :
          /\ loopArgs = [rise |-> rise, set |-> rise + len, step |-> step]
          /\ loopState = [pc |-> "loop", cursor |-> rise, n |-> 0, last |-> rise,
                          odd |-> FALSE]

LoopIdle ==
    /\ loopArgs = [rise |-> 0, set |-> 0, step |-> 1]
    /\ loopState = [pc |-> "idle", cursor |-> 0, n |-> 0, last |-> 0, odd |-> FALSE]

\* datetime + timedelta raises OverflowError outside datetime.min..max
InRange(t) == MinInstant <= t /\ t <= MaxInstant

\* samples_utc.append(...): the samples are counted, up to MaxLoopCount
Appended(n) == Min2(n + 1, MaxLoopCount)

\* while cursor <= set_dt: samples_utc.append(cursor); cursor += step
\* (odd: whether an odd number of iterations has been made)
LoopAppend ==
    /\ loopState.pc = "loop"
    /\ loopState.cursor <= loopArgs.set
    /\ InRange(loopState.cursor + loopArgs.step)
    /\ loopState' = [loopState EXCEPT !.n = Appended(@),
                                      !.last = loopState.cursor,
                                      !.cursor = @ + loopArgs.step,
                                      !.odd = ~@]
    /\ UNCHANGED <<loopArgs, notLoop>>

\* cursor += step leaves the range of datetime
LoopOverflow ==
    /\ loopState.pc = "loop"
    /\ loopState.cursor <= loopArgs.set
    /\ ~InRange(loopState.cursor + loopArgs.step)
    /\ loopState' = [loopState EXCEPT !.n = Appended(@),
                                      !.last = loopState.cursor,
                                      !.pc = "raised"]
    /\ UNCHANGED <<loopArgs, notLoop>>

\* the loop condition is false
LoopExit ==
    /\ loopState.pc = "loop"
    /\ loopState.cursor > loopArgs.set
    /\ loopState' = [loopState EXCEPT !.pc = "close"]
    /\ UNCHANGED <<loopArgs, notLoop>>

\* if samples_utc[-1] != set_dt: samples_utc.append(set_dt)
LoopClose ==
    /\ loopState.pc = "close"
    /\ loopState' =
          IF loopState.last # loopArgs.set
          THEN [loopState EXCEPT !.n = Appended(@), !.last = loopArgs.set,
                                 !.pc = "done"]
          ELSE [loopState EXCEPT !.pc = "done"]
    /\ UNCHANGED <<loopArgs, notLoop>>

(***************************************************************************)
(* tle.py: fetch_tle answered with any text of up to MaxLines lines        *)
(***************************************************************************)
MaxLines == 5

\* a blank line, the ISS name in two spellings, element lines with blanks
\* round them, and another satellite's name
LineKinds ==
    {<<" ">>,
     <<"I", "S", "S", " ", "(", "Z", "A", "R", "Y", "A", ")", " ">>,
     <<"i", "s", "s", " ", "(", "z", "a", "r", "y", "a", ")">>,
     <<" ", "1", " ", "f">>,
     <<"2", " ", "f", " ">>,
     NameNotIss}

Texts == UNION {[1..n -> LineKinds] : n \in 0..MaxLines}

NoFetch == Raised(EmptyMap, "none", "", <<>>)

ParseInputs ==
    /\ \E name \in {NameIssPadded, NameNotIss},
          resp \in {RespOk(t) : t \in Texts} \cup {RespTransport} :
          parseArgs = [name |-> name, url |-> ExampleUrl, resp |-> resp]
    /\ parseResult = [done |-> FALSE, call |-> NoFetch]

ParseIdle ==
    /\ parseArgs = [name |-> NameIss, url |-> ExampleUrl, resp |-> RespTransport]
    /\ parseResult = [done |-> FALSE, call |-> NoFetch]

\* the call fetch_tle(name, url) when the network answers with resp
FetchParsed ==
    /\ ~parseResult.done
    /\ parseResult' =
          [done |-> TRUE,
           call |-> fetch_tle(TLE_CACHE, parseArgs.name, parseArgs.url,
                              parseArgs.resp, RespTransport)]
    /\ TLE_CACHE' = parseResult'.call.cache
    /\ UNCHANGED <<parseArgs, notParse>>

(***************************************************************************)
(* geo.py: LocationResolver.resolve.  Queries and addresses are tuples of  *)
(* characters; the geocoder and the timezone finder are outside the        *)
(* program and their answers are inputs.                                   *)
(***************************************************************************)
MaxResolves == 2

\* latitude or longitude None
NoCoord == 999

Queries == {<<>>, <<" ">>, <<"M">>, <<" ", "M", " ">>, <<"X">>}

GeoFound(lat, lon, has_address, address) ==
    [kind |-> "found", latitude |-> lat, longitude |-> lon,
     has_address |-> has_address, address |-> address]
GeoOther(kind) ==
    [kind |-> kind, latitude |-> NoCoord, longitude |-> NoCoord,
     has_address |-> FALSE, address |-> <<>>]

\* what geocoder.geocode gives: a place, another place, a place without an
\* address, places lacking a coordinate, None, an awaitable, an exception
GeoAnswers ==
    {GeoFound(48, 11, TRUE, <<"A">>), GeoFound(1, 2, TRUE, <<"B">>),
     GeoFound(48, 11, FALSE, <<>>), GeoFound(NoCoord, 11, TRUE, <<"A">>),
     GeoFound(48, NoCoord, TRUE, <<"A">>),
     GeoOther("none"), GeoOther("awaitable"), GeoOther("raises")}

\* what timezone_at gives: None, a zone ZoneInfo knows, one it does not
TzAnswers == {"None", "Europe/Berlin", "Not/AZone"}
KnownZones == {"Europe/Berlin"}

NoLocation ==
    [query |-> <<>>, resolved_name |-> <<>>, latitude |-> NoCoord,
     longitude |-> NoCoord, timezone_name |-> "None"]

NoLocations == [k \in {} |-> NoLocation]

GeoReturned(cache, value, geocodes, lookups) ==
    [outcome |-> "return", error |-> "none", value |-> value,
     geocodes |-> geocodes, lookups |-> lookups, cache |-> cache]

GeoRaised(cache, error, geocodes, lookups) ==
    [outcome |-> "raise", error |-> error, value |-> NoLocation,
     geocodes |-> geocodes, lookups |-> lookups, cache |-> cache]

GeoCacheStoreDropped(cache, key, value) == cache

\* self._cache[normalized_query] = result
GeoCacheStore(cache, key, value) ==
    [k \in DOMAIN cache \cup {key} |-> IF k = key THEN value ELSE cache[k]]

\* resolve(query) when the geocoder would answer geo and the finder tz
resolve(cache, query, geo, tz) ==
    LET normalized_query == Strip(query)
        result == [query |-> normalized_query,
                   resolved_name |-> IF geo.has_address THEN geo.address
                                     ELSE normalized_query,
                   latitude |-> geo.latitude, longitude |-> geo.longitude,
                   timezone_name |-> tz]
    IN IF normalized_query = <<>>
       THEN GeoRaised(cache, "empty", 0, 0)
       ELSE IF normalized_query \in DOMAIN cache
       THEN GeoReturned(cache, cache[normalized_query], 0, 0)
       ELSE IF geo.kind = "raises"
       THEN GeoRaised(cache, "geocoder", 1, 0)
       ELSE IF geo.kind = "awaitable"
       THEN GeoRaised(cache, "async", 1, 0)
       ELSE IF geo.kind = "none"
       THEN GeoRaised(cache, "not found", 1, 0)
       ELSE IF geo.latitude = NoCoord \/ geo.longitude = NoCoord
       THEN GeoRaised(cache, "missing coordinates", 1, 0)
       ELSE IF tz = "None"
       THEN GeoRaised(cache, "timezone", 1, 1)
       ELSE IF tz \notin KnownZones
       THEN GeoRaised(cache, "invalid timezone", 1, 1)
       ELSE GeoReturned(GeoCacheStore(cache, normalized_query, result), result, 1, 1)

NoResolve ==
    [query |-> <<>>, outcome |-> "none", error |-> "none", value |-> NoLocation,
     geocodes |-> 0, lookups |-> 0, hadReturned |-> FALSE, earlier |-> NoLocation,
     cacheBefore |-> NoLocations]

GeoIdle ==
    /\ geoCache = NoLocations
    /\ geoCalls = 0
    /\ geoReturned = NoLocations
    /\ geoLast = NoResolve

\* one call resolver.resolve(query)
Resolve ==
    /\ geoCalls < MaxResolves
    /\ \E query \in Queries, geo \in GeoAnswers, tz \in TzAnswers :
          LET res == resolve(geoCache, query, geo, tz)
              key == Strip(query)
          IN /\ geoCache' = res.cache
             /\ geoReturned' =
                   IF res.outcome = "return" /\ key \notin DOMAIN geoReturned
                   THEN [k \in DOMAIN geoReturned \cup {key} |->
                            IF k = key THEN res.value ELSE geoReturned[k]]
                   ELSE geoReturned
             /\ geoLast' =
                   [query |-> query, outcome |-> res.outcome, error |-> res.error,
                    value |-> res.value, geocodes |-> res.geocodes,
                    lookups |-> res.lookups,
                    hadReturned |-> key \in DOMAIN geoReturned,
                    earlier |-> IF key \in DOMAIN geoReturned
                                THEN geoReturned[key] ELSE NoLocation,
                    cacheBefore |-> geoCache]
    /\ geoCalls' = geoCalls + 1
    /\ UNCHANGED notGeo

(***************************************************************************)
(* mailer.py: send_mail.  The SMTP server is outside the program: which of *)
(* the client calls raises, if any, is an input.                           *)
(***************************************************************************)
MaxSmtpCalls == 7

\* if cfg.user and cfg.password: client.login(...)
Login(cfg) == IF cfg.user # "" /\ cfg.password # "" THEN <<"login">> ELSE <<>>

\* the calls of the SMTP_SSL branch, in order
SslSession(cfg) == <<"SMTP_SSL">> \o Login(cfg) \o <<"send_message">>

StartTlsSessionLoginFirst(cfg) ==
    <<"SMTP", "ehlo">> \o Login(cfg) \o <<"starttls", "ehlo", "send_message">>

\* the calls of the SMTP branch, in order
StartTlsSession(cfg) ==
    <<"SMTP", "ehlo", "starttls", "ehlo">> \o Login(cfg) \o <<"send_message">>

MailOutcome(outcome, error, trace) ==
    [done |-> TRUE, outcome |-> outcome, error |-> error, trace |-> trace]

\* send_mail(..., smtp_config=cfg) when the SMTP call number fail_at raises
\* (0: none does); leaving the with block calls __exit__ on an open client
send_mail(cfg, fail_at) ==
    IF cfg.host = ""
    THEN MailOutcome("raise", "SMTP_HOST is required", <<>>)
    ELSE IF cfg.tls_mode \notin {"ssl", "starttls"}
    THEN MailOutcome("raise", "SMTP_TLS_MODE", <<>>)
    ELSE LET session == IF cfg.tls_mode = "ssl" THEN SslSession(cfg)
                        ELSE StartTlsSession(cfg)
         IN IF fail_at = 0 \/ fail_at > Len(session)
            THEN MailOutcome("return", "none", session \o <<"__exit__">>)
            ELSE IF fail_at = 1
            THEN MailOutcome("raise", "Failed to send", SubSeq(session, 1, 1))
            ELSE MailOutcome("raise", "Failed to send",
                             SubSeq(session, 1, fail_at) \o <<"__exit__">>)

SmtpConfigs ==
    [host : {"", "smtp.example.com"}, tls_mode : {"ssl", "starttls", "none", "SSL"},
     user : {"", "u"}, password : {"", "p"}]

NoMail == [done |-> FALSE, outcome |-> "none", error |-> "none", trace |-> <<>>]

MailInputs ==
    /\ \E cfg \in SmtpConfigs, fail_at \in 0..MaxSmtpCalls :
          mailArgs = [cfg |-> cfg, fail_at |-> fail_at]
    /\ mailResult = NoMail

MailIdle ==
    /\ mailArgs = [cfg |-> [host |-> "", tls_mode |-> "ssl", user |-> "",
                            password |-> ""],
                   fail_at |-> 0]
    /\ mailResult = NoMail

\* the call send_mail(subject, body, to_addr, smtp_config=cfg)
SendMail ==
    /\ ~mailResult.done
    /\ mailResult' = send_mail(mailArgs.cfg, mailArgs.fail_at)
    /\ UNCHANGED <<mailArgs, notMail>>

(***************************************************************************)
(* Specifications                                                          *)
(***************************************************************************)
Init ==
    /\ TleIdle /\ SpanIdle /\ WinIdle /\ CtorIdle /\ StarsIdle
    /\ SamplerIdle /\ OrchIdle /\ AzIdle /\ PromptIdle /\ LoopIdle /\ ParseIdle /\ GeoIdle /\ MailIdle

InitStars ==
    /\ TleIdle /\ SpanIdle /\ WinIdle /\ CtorIdle /\ StarsInputs
    /\ SamplerIdle /\ OrchIdle /\ AzIdle /\ PromptIdle /\ LoopIdle /\ ParseIdle /\ GeoIdle /\ MailIdle

NextStars == VisibilityStars

SpecStars == InitStars /\ [][NextStars]_vars

InitSampler ==
    /\ TleIdle /\ SpanIdle /\ WinIdle /\ CtorIdle /\ StarsIdle
    /\ SamplerInputs /\ OrchIdle /\ AzIdle /\ PromptIdle /\ LoopIdle /\ ParseIdle /\ GeoIdle /\ MailIdle

NextSampler == SamplePass

SpecSampler == InitSampler /\ [][NextSampler]_vars

InitOrch ==
    /\ SpanIdle /\ WinIdle /\ CtorIdle /\ StarsIdle /\ SamplerIdle
    /\ OrchInputs /\ AzIdle /\ PromptIdle /\ LoopIdle /\ ParseIdle /\ GeoIdle /\ MailIdle

NextOrch == VisibleWindowsBetween

SpecOrch == InitOrch /\ [][NextOrch]_vars

InitAz ==
    /\ TleIdle /\ SpanIdle /\ WinIdle /\ CtorIdle /\ StarsIdle
    /\ SamplerIdle /\ OrchIdle /\ AzInputs /\ PromptIdle /\ LoopIdle /\ ParseIdle /\ GeoIdle /\ MailIdle

NextAz == AzToCardinal

SpecAz == InitAz /\ [][NextAz]_vars

InitPrompt ==
    /\ TleIdle /\ SpanIdle /\ WinIdle /\ CtorIdle /\ StarsIdle
    /\ SamplerIdle /\ OrchIdle /\ AzIdle /\ PromptInputs /\ LoopIdle /\ ParseIdle /\ GeoIdle /\ MailIdle

NextPrompt == PromptText

SpecPrompt == InitPrompt /\ [][NextPrompt]_vars

InitLoop ==
    /\ TleIdle /\ SpanIdle /\ WinIdle /\ CtorIdle /\ StarsIdle
    /\ SamplerIdle /\ OrchIdle /\ AzIdle /\ PromptIdle /\ LoopInputs /\ ParseIdle /\ GeoIdle /\ MailIdle

NextLoop == LoopAppend \/ LoopOverflow \/ LoopExit \/ LoopClose

SpecLoop == InitLoop /\ [][NextLoop]_vars /\ WF_vars(NextLoop)

InitParse ==
    /\ TleIdle /\ SpanIdle /\ WinIdle /\ CtorIdle /\ StarsIdle
    /\ SamplerIdle /\ OrchIdle /\ AzIdle /\ PromptIdle /\ LoopIdle /\ ParseInputs /\ GeoIdle /\ MailIdle

NextParse == FetchParsed

SpecParse == InitParse /\ [][NextParse]_vars

InitMail ==
    /\ TleIdle /\ SpanIdle /\ WinIdle /\ CtorIdle /\ StarsIdle
    /\ SamplerIdle /\ OrchIdle /\ AzIdle /\ PromptIdle /\ LoopIdle /\ ParseIdle /\ GeoIdle /\ MailInputs

NextMail == SendMail

SpecMail == InitMail /\ [][NextMail]_vars

NextGeo == Resolve

SpecGeo == Init /\ [][NextGeo]_vars

Next == FetchTle

Spec == Init /\ [][Next]_vars

InitSpans ==
    /\ TleIdle /\ SpanInputs /\ WinIdle /\ CtorIdle /\ StarsIdle
    /\ SamplerIdle /\ OrchIdle /\ AzIdle /\ PromptIdle /\ LoopIdle /\ ParseIdle /\ GeoIdle /\ MailIdle

NextSpans == ContiguousTrueSpans

SpecSpans == InitSpans /\ [][NextSpans]_vars

InitWin ==
    /\ TleIdle /\ SpanIdle /\ WinInputs /\ CtorInputs /\ StarsIdle
    /\ SamplerIdle /\ OrchIdle /\ AzIdle /\ PromptIdle /\ LoopIdle /\ ParseIdle /\ GeoIdle /\ MailIdle

NextWin == WindowsFromSamples \/ ConstructWindow

SpecWin == InitWin /\ [][NextWin]_vars

(***************************************************************************)
(* Claims about fetch_tle                                                  *)
(***************************************************************************)
Called == lastCall.outcome # "none"
Missed == Called /\ ~lastCall.wasCached
Requests == Len(lastCall.exchanges)
LastExchange == lastCall.exchanges[Requests]
MatchesBundled(name) == StrLower(Strip(name)) = StrLower(NameIss)

First403AtStations ==
    /\ Missed
    /\ lastCall.url = FALLBACK_STATIONS_URL
    /\ Requests >= 1
    /\ lastCall.exchanges[1].resp.kind = "http"
    /\ lastCall.exchanges[1].resp.status = 403

\* C1: a call that misses the cache, asks the stations-list URL and gets 403
\* makes exactly two requests, the first to the stations-list URL and the
\* second to the alternate GP URL, whatever the second one answers.
C1_OneRetry ==
    First403AtStations =>
        /\ Requests = 2
        /\ lastCall.exchanges[1].url = FALLBACK_STATIONS_URL
        /\ lastCall.exchanges[2].url = FALLBACK_GP_URL

\* the retry was made, failed, and the call raised
C1_Witness ==
    /\ First403AtStations
    /\ Requests = 2
    /\ lastCall.exchanges[2].resp.kind = "transport"
    /\ lastCall.outcome = "raise"

AllTransport ==
    /\ Missed
    /\ Requests >= 1
    /\ \A i \in 1..Requests : lastCall.exchanges[i].resp.kind = "transport"

\* C2: when every request of an uncached call fails at transport level, the
\* call returns the bundled set iff the stripped, lower-cased name equals the
\* bundled name, and raises "Failed to fetch" otherwise, for every url.
C2_TransportFallback ==
    AllTransport =>
        IF MatchesBundled(lastCall.name)
        THEN lastCall.outcome = "return" /\ lastCall.value = BUNDLED_ISS_TLE
        ELSE lastCall.outcome = "raise" /\ lastCall.error = "Failed to fetch"

\* the padded lower-case name resolved to the bundled set at an arbitrary url
C2_Witness ==
    /\ AllTransport
    /\ lastCall.name = NameIssPadded
    /\ lastCall.url = ExampleUrl
    /\ lastCall.value = BUNDLED_ISS_TLE

\* the request that ended the call answered a non-success status and was not
\* the 403 of the stations-list URL that triggers the retry
EndedWithStatus ==
    /\ Missed
    /\ Requests >= 1
    /\ LastExchange.resp.kind = "http"

\* C3 as stated: the bundled set is returned only after a transport failure,
\* and a call ended by a non-success status raises for every name.
C3_Original ==
    /\ (Called /\ lastCall.source = "bundled") =>
            \E i \in 1..Requests : lastCall.exchanges[i].resp.kind = "transport"
    /\ EndedWithStatus => lastCall.outcome = "raise"

\* C3 amended: the bundled set is returned only in a call whose last request
\* failed (transport failure or non-success status) and whose name matches
\* the bundled name; a call ended by a non-success status returns the
\* bundled set for a matching name and raises "Failed to fetch" for any other.
C3_StatusFallback ==
    /\ (Called /\ lastCall.source = "bundled") =>
            /\ Requests >= 1
            /\ LastExchange.resp.kind \in {"transport", "http"}
            /\ MatchesBundled(lastCall.name)
            /\ lastCall.value = BUNDLED_ISS_TLE
    /\ EndedWithStatus =>
            IF MatchesBundled(lastCall.name)
            THEN lastCall.outcome = "return" /\ lastCall.source = "bundled"
            ELSE lastCall.outcome = "raise" /\ lastCall.error = "Failed to fetch"

\* a status 500 from a url other than the stations list gave the bundled set
C3_Witness ==
    /\ EndedWithStatus
    /\ Requests = 1
    /\ LastExchange.resp.status = 500
    /\ lastCall.source = "bundled"

\* the text holds a record for the name: three consecutive non-blank lines
HoldsRecord(name, text) ==
    LET lines == StrippedLines(text) IN
    \E i \in 1..(Len(lines) - 2) :
        /\ StrLower(lines[i]) = StrLower(Strip(name))
        /\ Len(lines[i + 1]) >= 2 /\ lines[i + 1][1] = "1" /\ lines[i + 1][2] = " "
        /\ Len(lines[i + 2]) >= 2 /\ lines[i + 2][1] = "2" /\ lines[i + 2][2] = " "

FetchedWithoutRecord ==
    /\ Missed
    /\ Requests >= 1
    /\ LastExchange.resp.kind = "ok"
    /\ ~HoldsRecord(lastCall.name, LastExchange.resp.text)

\* C4: when the last request succeeded and its text holds no record for the
\* name, the call raises the not-found error, returns nothing and leaves the
\* cache as it was, for the bundled name and after a 403 retry as well.
C4_NotFound ==
    FetchedWithoutRecord =>
        /\ lastCall.outcome = "raise"
        /\ lastCall.error = "not found"
        /\ lastCall.errorUrl = LastExchange.url
        /\ TLE_CACHE = lastCall.cacheBefore

\* the bundled name, not found in the text of the alternate URL after a 403
C4_Witness ==
    /\ FetchedWithoutRecord
    /\ First403AtStations
    /\ Requests = 2
    /\ lastCall.name = NameIss
    /\ lastCall.error = "not found"

\* C5: once a call with (name, url) has returned a value, every later call
\* with the same (name, url) returns that value and makes no request.
C5_CacheHit ==
    (Called /\ lastCall.hadReturned) =>
        /\ lastCall.outcome = "return"
        /\ lastCall.value = lastCall.earlier
        /\ Requests = 0

\* a second call for a key whose first call had returned the bundled set
C5_Witness ==
    /\ Called
    /\ lastCall.hadReturned
    /\ lastCall.earlier = BUNDLED_ISS_TLE
    /\ Requests = 0


(***************************************************************************)
(* Claim about contiguous_true_spans (under SpecSpans)                     *)
(***************************************************************************)
InSomeSpan(i) == \E k \in 1..Len(spans) : spans[k][1] <= i /\ i <= spans[k][2]

\* C6: the result is exactly the maximal runs of true values, as inclusive
\* (start, end) pairs in ascending order: an index is covered iff its value
\* is true, start <= end, consecutive spans have a false index between them,
\* the empty mask gives no span, an all-true mask gives (0, N-1), and a run
\* reaching the last index ends at N-1.
C6_MaximalRuns ==
    spansDone =>
        LET N == Len(mask) IN
        /\ \A i \in 0..(N - 1) : mask[i + 1] <=> InSomeSpan(i)
        /\ \A k \in 1..Len(spans) :
              0 <= spans[k][1] /\ spans[k][1] <= spans[k][2] /\ spans[k][2] <= N - 1
        /\ \A k \in 1..(Len(spans) - 1) :
              /\ spans[k][2] + 1 < spans[k + 1][1]
              /\ ~mask[spans[k][2] + 2]
        /\ N = 0 => spans = <<>>
        /\ (N > 0 /\ \A i \in 1..N : mask[i]) => spans = << <<0, N - 1>> >>
        /\ (N > 0 /\ mask[N]) => (spans # <<>> /\ spans[Len(spans)][2] = N - 1)

\* the documented example, whose second run reaches the last index
C6_Witness ==
    /\ spansDone
    /\ mask = <<FALSE, TRUE, TRUE, FALSE, TRUE>>
    /\ spans = << <<1, 2>>, <<4, 4>> >>

(***************************************************************************)
(* Claims about _windows_from_samples (under SpecWin)                      *)
(***************************************************************************)
WinCalled == winResult.outcome # "none"
WinReturned == winResult.outcome = "return"
NSamples == Len(sample_times_utc)
Windows == winResult.windows

EqualLengths ==
    /\ Len(iss_alt_deg) = NSamples
    /\ Len(iss_az_deg) = NSamples
    /\ Len(sun_alt_deg) = NSamples
    /\ Len(iss_sunlit) = NSamples

\* the visibility condition of the specification, on sample i (from 0)
SampleVisible(i) ==
    /\ iss_alt_deg[i + 1] >= config.min_elev_deg
    /\ sun_alt_deg[i + 1] <= config.twilight_deg
    /\ iss_sunlit[i + 1]

\* the maximal runs of visible samples
VisibleRuns ==
    {r \in (0..(NSamples - 1)) \X (0..(NSamples - 1)) :
        /\ r[1] <= r[2]
        /\ \A i \in r[1]..r[2] : SampleVisible(i)
        /\ r[1] > 0 => ~SampleVisible(r[1] - 1)
        /\ r[2] < NSamples - 1 => ~SampleVisible(r[2] + 1)}

RunDuration(r) == sample_times_utc[r[2] + 1].t - sample_times_utc[r[1] + 1].t

\* C7: the mask is true at i iff elevation >= min_elev_deg, solar elevation
\* <= twilight_deg and sunlit, thresholds included; every sample of a returned
\* window is visible and the samples next to it on either side are not.
C7_VisiblePredicate ==
    (WinReturned /\ NSamples > 0) =>
        /\ Len(winResult.mask) = NSamples
        /\ \A i \in 0..(NSamples - 1) : winResult.mask[i + 1] <=> SampleVisible(i)
        /\ \A k \in 1..Len(Windows) :
              LET w == Windows[k] IN
              /\ \A i \in w.start_idx..w.end_idx : SampleVisible(i)
              /\ w.start_idx > 0 => ~SampleVisible(w.start_idx - 1)
              /\ w.end_idx < NSamples - 1 => ~SampleVisible(w.end_idx + 1)

\* a window strictly inside the pass that holds a sample at both thresholds
C7_Witness ==
    /\ WinReturned
    /\ \E k \in 1..Len(Windows) :
          LET w == Windows[k] IN
          /\ w.start_idx > 0
          /\ w.end_idx < NSamples - 1
          /\ \E i \in w.start_idx..w.end_idx :
                /\ iss_alt_deg[i + 1] = config.min_elev_deg
                /\ sun_alt_deg[i + 1] = config.twilight_deg

\* C8: the returned windows are, in span order, exactly the visible runs
\* whose duration timestamp[end] - timestamp[start] is at least
\* min_window_seconds; a run lasting exactly min_window_seconds is kept.
C8_DurationFilter ==
    WinReturned =>
        LET kept == {r \in VisibleRuns : RunDuration(r) >= config.min_window_seconds} IN
        /\ Len(Windows) = Cardinality(kept)
        /\ \A k \in 1..Len(Windows) :
              LET w == Windows[k] IN
              /\ <<w.start_idx, w.end_idx>> \in kept
              /\ w.duration = RunDuration(<<w.start_idx, w.end_idx>>)
              /\ w.start_local.t = sample_times_utc[w.start_idx + 1].t
              /\ w.end_local.t = sample_times_utc[w.end_idx + 1].t
        /\ \A k \in 1..(Len(Windows) - 1) : Windows[k].end_idx < Windows[k + 1].start_idx

\* one run lasting exactly min_window_seconds was kept, another was dropped
C8_Witness ==
    /\ WinReturned
    /\ config.min_window_seconds > 0
    /\ \E k \in 1..Len(Windows) : Windows[k].duration = config.min_window_seconds
    /\ Cardinality(VisibleRuns) > Len(Windows)

\* the first sample of s..e whose elevation is the greatest of s..e
FirstMax(s, e) ==
    CHOOSE p \in s..e :
        /\ \A j \in s..e : iss_alt_deg[j + 1] <= iss_alt_deg[p + 1]
        /\ \A j \in s..(p - 1) : iss_alt_deg[j + 1] < iss_alt_deg[p + 1]

\* C9: the peak of a window is the sample of its span with the greatest
\* elevation, the earliest one when several share it; peak_local,
\* peak_azimuth_deg and peak_elevation_deg are those of that sample.
C9_FirstPeak ==
    WinReturned =>
        \A k \in 1..Len(Windows) :
            LET w == Windows[k]
                p == FirstMax(w.start_idx, w.end_idx)
            IN /\ w.peak_local = AsTimezone(sample_times_utc[p + 1], loc.timezone)
               /\ w.peak_azimuth_deg = iss_az_deg[p + 1]
               /\ w.peak_elevation_deg = iss_alt_deg[p + 1]

\* a window whose greatest elevation occurs at its peak and again later
C9_Witness ==
    /\ WinReturned
    /\ \E k \in 1..Len(Windows) :
          LET w == Windows[k] IN
          \E j \in w.start_idx..w.end_idx :
              /\ sample_times_utc[j + 1].t > w.peak_local.t
              /\ iss_alt_deg[j + 1] = w.peak_elevation_deg
              /\ iss_az_deg[j + 1] # w.peak_azimuth_deg

\* C10: when the five arrays do not all have the same length the call raises
\* the size-mismatch PredictionError before any span is examined and
\* returns no window.
C10_SizeMismatch ==
    (WinCalled /\ ~EqualLengths) =>
        /\ winResult.outcome = "raise"
        /\ winResult.error = "PredictionError"
        /\ winResult.examined = 0
        /\ winResult.windows = <<>>

\* only iss_sunlit is longer: the other four arrays would give a window
C10_Witness ==
    /\ WinCalled
    /\ Len(iss_sunlit) = NSamples + 1
    /\ Len(iss_alt_deg) = NSamples
    /\ Len(iss_az_deg) = NSamples
    /\ Len(sun_alt_deg) = NSamples
    /\ NSamples >= 3
    /\ \A i \in 0..(NSamples - 1) : SampleVisible(i)
    /\ winResult.error = "PredictionError"

(***************************************************************************)
(* Claims about the visibility score (under SpecStars)                     *)
(***************************************************************************)
Ind(b) == IF b THEN 1 ELSE 0

\* C11: utils.visibility_stars(peak, duration) equals
\* 1 + [peak >= 20] + [peak >= 40] + [peak >= 65] + [duration >= 120], every
\* threshold included; it lies in 1..5 and is 5 iff peak >= 65 and
\* duration >= 120.
C11_ScoreFormula ==
    starsResult.done =>
        \A i \in 1..2 :
            LET p == starsArgs[i].peak
                d == starsArgs[i].duration
                score == starsResult.utils[i]
            IN /\ score = 1 + Ind(p >= 20) + Ind(p >= 40) + Ind(p >= 65) + Ind(d >= 120)
               /\ score \in 1..5
               /\ (score = 5) <=> (p >= 65 /\ d >= 120)

\* a pair exactly on the two upper thresholds scored 5
C11_Witness ==
    /\ starsResult.done
    /\ starsArgs[1] = [peak |-> 65, duration |-> 120]
    /\ starsResult.utils[1] = 5

\* C12: for p1 <= p2 and d1 <= d2 the score of (p1, d1) is at most the score
\* of (p2, d2), for either scoring function.
C12_Monotonic ==
    (/\ starsResult.done
     /\ starsArgs[1].peak <= starsArgs[2].peak
     /\ starsArgs[1].duration <= starsArgs[2].duration) =>
        /\ starsResult.predictor[1] <= starsResult.predictor[2]
        /\ starsResult.utils[1] <= starsResult.utils[2]

\* a strictly better pair got a strictly higher score
C12_Witness ==
    /\ starsResult.done
    /\ starsArgs[1].peak < starsArgs[2].peak
    /\ starsArgs[1].duration < starsArgs[2].duration
    /\ starsResult.predictor[1] < starsResult.predictor[2]

(***************************************************************************)
(* Claim about the sampling loop (under SpecSampler)                       *)
(***************************************************************************)
\* C13: for rise R <= set S and step D > 0 the samples are R, R+D, R+2D, ...
\* up to the last value not exceeding S, followed by S when that value is
\* not S: first R, last S, strictly increasing, at least two samples when
\* R < S and exactly one when R = S.
C13_Sampler ==
    samplerResult.done =>
        LET R == samplerArgs.rise
            S == samplerArgs.set
            D == samplerArgs.step
            r == samplerResult.samples
            n == Len(r)
            onStep == (S - R) \div D + 1
        IN /\ n >= 1
           /\ r[1] = R
           /\ r[n] = S
           /\ \A i \in 1..(n - 1) : r[i] < r[i + 1]
           /\ Cardinality({i \in 1..n : r[i] = S}) = 1
           /\ \A i \in 1..onStep : r[i] = R + (i - 1) * D
           /\ n = IF (S - R) % D = 0 THEN onStep ELSE onStep + 1
           /\ R < S => n >= 2
           /\ R = S => n = 1

\* the set time is off the step grid and was appended after three steps
C13_Witness ==
    /\ samplerResult.done
    /\ (samplerArgs.set - samplerArgs.rise) % samplerArgs.step # 0
    /\ Len(samplerResult.samples) = 4
    /\ samplerResult.samples[4] = samplerArgs.set
    /\ samplerResult.samples[3] = samplerArgs.rise + 2 * samplerArgs.step

(***************************************************************************)
(* visible_windows_between                                                 *)
(***************************************************************************)
OrchCalled == orchResult.outcome # "none"
OrchReturned == orchResult.outcome = "return"

RECURSIVE Concat(_)
Concat(lists) == IF lists = <<>> THEN <<>> ELSE lists[1] \o Concat(Tail(lists))

Occurrences(ws, w) == Cardinality({i \in 1..Len(ws) : ws[i] = w})

SamePermutation(a, b) ==
    /\ Len(a) = Len(b)
    /\ \A i \in 1..Len(a) : Occurrences(a, a[i]) = Occurrences(b, a[i])

\* C14: the returned list is in non-decreasing order of start_local and is a
\* permutation of the concatenation of the window lists of the processed passes
C14_SortedPermutation ==
    OrchReturned =>
        /\ \A i \in 1..(Len(orchResult.windows) - 1) :
              orchResult.windows[i].start_local.t
                  <= orchResult.windows[i + 1].start_local.t
        /\ SamePermutation(orchResult.windows, Concat(orchResult.passWindows))

C14_Witness ==
    /\ OrchReturned
    /\ Len(orchResult.passes) = 2
    /\ Len(orchResult.windows) = 3

AwareArgs == orchArgs.start_utc.tz # NaiveTz /\ orchArgs.end_utc.tz # NaiveTz

EmptyArgs == AwareArgs /\ orchArgs.end_utc.t <= orchArgs.start_utc.t

\* C15: with aware arguments and end_utc <= start_utc the call returns the
\* empty list, fetches no TLE, sends no request, queries neither events nor
\* geometry, and leaves TLE_CACHE as it was
C15_EmptyRange ==
    [][EmptyArgs =>
          /\ orchResult'.outcome = "return"
          /\ orchResult'.windows = <<>>
          /\ orchResult'.fetches = 0
          /\ orchResult'.requests = 0
          /\ orchResult'.eventQueries = 0
          /\ orchResult'.passes = <<>>
          /\ TLE_CACHE' = TLE_CACHE]_vars

C15_Witness ==
    /\ EmptyArgs
    /\ OrchReturned
    /\ orchArgs.end_utc.t = orchArgs.start_utc.t
    /\ \E i \in 1..Len(orchArgs.events) : orchArgs.events[i].type = Set
    /\ TLE_CACHE = CachedIss

Orders(n) == {f \in [1..n -> 1..n] : \A i, j \in 1..n : i # j => f[i] # f[j]}

InOrder(order, lists) == Concat([i \in 1..Len(lists) |-> lists[order[i]]])

\* C17: whatever order the processed passes are evaluated and appended in,
\* sorting by start_local gives the list the call returned
C17_OrderIndependent ==
    OrchReturned =>
        \A order \in Orders(Len(orchResult.passWindows)) :
            SortedByStart(InOrder(order, orchResult.passWindows)) = orchResult.windows

C17_Witness ==
    /\ OrchReturned
    /\ Len(orchResult.passWindows) = 2
    /\ orchResult.passWindows[1] # <<>>
    /\ orchResult.passWindows[2] # <<>>
    /\ InOrder([i \in 1..2 |-> 3 - i], orchResult.passWindows) # orchResult.windows

(***************************************************************************)
(* VisibilityWindow invariants                                             *)
(***************************************************************************)
NonDecreasingTimes ==
    \A i \in 1..(NSamples - 1) : sample_times_utc[i].t <= sample_times_utc[i + 1].t

Aware(dt) == dt.tz # NaiveTz

\* C16: every window _windows_from_samples returns has end >= start, duration
\* equal to end - start and not negative, a rating in 1..5 and aware start,
\* peak and end, with start <= peak <= end when the sample times do not
\* decrease; and the constructor returns no window that has end < start, a
\* negative duration, a rating outside 1..5 or a naive timestamp
C16_WindowInvariants ==
    /\ WinReturned =>
          \A i \in 1..Len(Windows) :
              LET w == Windows[i] IN
              /\ w.end_local.t >= w.start_local.t
              /\ w.duration = w.end_local.t - w.start_local.t
              /\ w.duration >= 0
              /\ w.visibility_stars \in 1..5
              /\ Aware(w.start_local) /\ Aware(w.peak_local) /\ Aware(w.end_local)
              /\ NonDecreasingTimes =>
                    (w.start_local.t <= w.peak_local.t /\ w.peak_local.t <= w.end_local.t)
    /\ ctorResult.outcome = "return" =>
          /\ ctorArgs.end_local.t >= ctorArgs.start_local.t
          /\ ctorArgs.duration >= 0
          /\ ctorArgs.visibility_stars \in 1..5
          /\ Aware(ctorArgs.start_local) /\ Aware(ctorArgs.peak_local)
          /\ Aware(ctorArgs.end_local)

C16_Witness ==
    /\ WinReturned
    /\ Len(Windows) = 1
    /\ ctorResult.outcome = "raise"
    /\ ctorArgs.end_local.t < ctorArgs.start_local.t
    /\ ctorArgs.visibility_stars = 5
    /\ Aware(ctorArgs.start_local) /\ Aware(ctorArgs.peak_local) /\ Aware(ctorArgs.end_local)

(***************************************************************************)
(* az_to_cardinal                                                          *)
(***************************************************************************)
Supported == azArgs.points \in {4, 8, 16}

\* C18: for a supported resolution, the azimuth with k whole turns added
\* gets the label of the azimuth itself, k negative or positive
C18_Periodic ==
    (azResult.done /\ Supported) =>
        /\ azResult.base.outcome = "return"
        /\ azResult.shifted = azResult.base

C18_Witness ==
    /\ azResult.done
    /\ Supported
    /\ azArgs.az_deg + FullTurn * azArgs.k < 0
    /\ azResult.shifted.value = "NNW"

Centre(j, points) == j * (FullTurn \div points)

\* distance round the circle between two directions
Apart(a, b) ==
    LET d == Abs(a - b) % FullTurn IN IF d > FullTurn - d THEN FullTurn - d ELSE d

\* C19: the label returned is the one whose centre is nearest to the azimuth
\* modulo 360; halfway between two centres it is the clockwise-next one; and
\* label j is returned exactly on the half-open bucket of width 360/p
\* centred on j * 360/p
C19_NearestCentre ==
    (azResult.done /\ Supported) =>
        LET p == azArgs.points
            n == azArgs.az_deg % FullTurn
            size == FullTurn \div p
            labels == labels_map(p)
        IN \A j \in 0..(p - 1) :
              LET got == azResult.base.value = labels[j + 1]
                  from_start == (n - Centre(j, p) + size \div 2) % FullTurn
              IN /\ got <=> (from_start < size)
                 /\ got =>
                       \A i \in 0..(p - 1) :
                           /\ Apart(n, Centre(j, p)) <= Apart(n, Centre(i, p))
                           /\ (i # j /\ Apart(n, Centre(j, p)) = Apart(n, Centre(i, p)))
                                 => j = (i + 1) % p

C19_Witness ==
    /\ azResult.done
    /\ azArgs.points = 16
    /\ azArgs.az_deg = 1125
    /\ azResult.base.value = "NNE"

(***************************************************************************)
(* _prompt_text                                                            *)
(***************************************************************************)
Mask == <<"[", "*", "*", "*", "*", "*", "*", "*", "*", "]">>

\* part occurs in text as a run of consecutive characters
Contains(text, part) ==
    \E i \in 0..(Len(text) - Len(part)) : SubSeq(text, i + 1, i + Len(part)) = part

SecretWithDefault ==
    promptResult.done /\ promptArgs.secret /\ promptArgs.default # <<>>

\* C20: with secret=True and a non-empty default the prompt holds the fixed
\* mask [********] and not the default, and the value returned is the typed
\* text, or the default when nothing is typed
C20_MaskedPrompt ==
    SecretWithDefault =>
        /\ Contains(promptResult.prompt, Mask)
        /\ ~Contains(promptResult.prompt, promptArgs.default)
        /\ promptResult.value =
              (IF Strip(promptArgs.raw) # <<>> THEN Strip(promptArgs.raw)
               ELSE promptArgs.default)

(***************************************************************************)
(* Event pairing and failures of visible_windows_between                   *)
(***************************************************************************)
Events == orchArgs.events

\* the last rise before event j, 0 when there is none
LastRiseBefore(j) ==
    LET rises == {i \in 1..(j - 1) : Events[i].type = Rise}
    IN IF rises = {} THEN 0 ELSE CHOOSE i \in rises : \A k \in rises : k <= i

\* the set events that close a pass: a rise before it and no set in between
ClosingSets ==
    {j \in 1..Len(Events) :
        /\ Events[j].type = Set
        /\ LastRiseBefore(j) # 0
        /\ \A k \in (LastRiseBefore(j) + 1)..(j - 1) : Events[k].type # Set}

RECURSIVE PassesUpTo(_)
PassesUpTo(j) ==
    IF j = 0 THEN <<>>
    ELSE IF j \in ClosingSets
         THEN Append(PassesUpTo(j - 1), <<Events[LastRiseBefore(j)].t, Events[j].t>>)
         ELSE PassesUpTo(j - 1)

ExpectedPasses == PassesUpTo(Len(Events))

NonEmptyArgs == AwareArgs /\ orchArgs.end_utc.t > orchArgs.start_utc.t

\* C22: the passes processed are exactly the (most recent rise, set) pairs
\* closed by a set arriving while a rise is pending, in order; pending rises
\* at the end, sets without a rise and culminations give no pass and no
\* geometry query; no rise is used twice
C22_EventPairing ==
    /\ OrchReturned /\ NonEmptyArgs => orchResult.passes = ExpectedPasses
    /\ OrchCalled =>
          /\ Len(orchResult.passes) <= Len(ExpectedPasses)
          /\ \A a \in 1..Len(orchResult.passes) :
                orchResult.passes[a] = ExpectedPasses[a]
          /\ \A a, b \in 1..Len(orchResult.passes) :
                a # b => orchResult.passes[a][1] # orchResult.passes[b][1]

\* rise, rise, set, set: the second rise is used, the second set is ignored
C22_Witness ==
    /\ OrchReturned
    /\ Len(Events) = 4
    /\ Events[1].type = Rise /\ Events[2].type = Rise
    /\ Events[3].type = Set /\ Events[4].type = Set
    /\ orchResult.passes = <<(<<Events[2].t, Events[3].t>>)>>

\* the name is not in the text the network answered the one request with
FetchFails == orchArgs.r1 = RespOk(DocOther) /\ orchResult.requests = 1

PassFails ==
    /\ orchArgs.fail.kind \in {"geometry", "mismatch"}
    /\ orchArgs.fail.at <= Len(ExpectedPasses)

SomethingFails ==
    NonEmptyArgs /\ (FetchFails \/ orchArgs.fail.kind = "events" \/ PassFails)

\* C23: for a non-empty range, a failing TLE fetch, event query, geometry
\* query or a size mismatch ends the call with PredictionError and no
\* window list; the TLE is fetched once, the events are queried at most once,
\* and no pass after the failing one is evaluated
C23_FailureWrapped ==
    (OrchCalled /\ SomethingFails) =>
        /\ orchResult.outcome = "raise"
        /\ orchResult.error = "PredictionError"
        /\ orchResult.windows = <<>>
        /\ orchResult.fetches = 1
        /\ orchResult.requests <= 1
        /\ orchResult.eventQueries <= 1
        /\ PassFails => Len(orchResult.passes) = orchArgs.fail.at

C23_Witness ==
    /\ OrchCalled
    /\ PassFails
    /\ orchArgs.fail.at = 2
    /\ orchResult.passWindows # <<>>
    /\ orchResult.passWindows[1] # <<>>
    /\ orchResult.outcome = "raise"

(***************************************************************************)
(* Single-sample spans                                                     *)
(***************************************************************************)
\* C24: no returned window is made of a single sample (start and end on the
\* same sample, duration 0), whatever min_window_seconds is; a pass sampled
\* once (rise equal to set) therefore returns no window
C24_NoSingleSampleWindow ==
    WinReturned =>
        /\ \A i \in 1..Len(Windows) :
              /\ Windows[i].start_idx # Windows[i].end_idx
              /\ Windows[i].duration # 0
        /\ NSamples = 1 => Windows = <<>>

(***************************************************************************)
(* Termination of the sampling loop                                        *)
(***************************************************************************)
\* C25: for every pass with rise <= set and every sample_seconds, zero and
\* negative included, the sampling loop comes to an end
C25_LoopTerminates == <>(loopState.pc \in {"done", "raised"})

(***************************************************************************)
(* _parse_tle                                                              *)
(***************************************************************************)
NonBlank(line) == line # <<>>

\* the non-blank lines of the answered text, stripped
ScannedLines ==
    SelectSeq([i \in 1..Len(parseArgs.resp.text) |-> Strip(parseArgs.resp.text[i])],
              NonBlank)

Begins(line, a, b) == Len(line) >= 2 /\ line[1] = a /\ line[2] = b

\* the places where a record of the requested name stands
RecordPlaces ==
    {i \in 1..(Len(ScannedLines) - 2) :
        /\ StrLower(ScannedLines[i]) = StrLower(Strip(parseArgs.name))
        /\ Begins(ScannedLines[i + 1], "1", " ")
        /\ Begins(ScannedLines[i + 2], "2", " ")}

FirstPlace == CHOOSE i \in RecordPlaces : \A j \in RecordPlaces : i <= j

CallKey == <<lastCall.name, lastCall.url>>

\* C27: a call that raises leaves the cache as it was; a call that returns
\* adds at most the entry of its own (name, url), the url asked for; every
\* entry present before the call is still there with the same value
C27_CacheGrows ==
    Called =>
        /\ lastCall.outcome = "raise" => TLE_CACHE = lastCall.cacheBefore
        /\ DOMAIN TLE_CACHE \subseteq DOMAIN lastCall.cacheBefore \cup {CallKey}
        /\ lastCall.outcome = "return" =>
              /\ CallKey \in DOMAIN TLE_CACHE
              /\ TLE_CACHE[CallKey] = lastCall.value
        /\ \A k \in DOMAIN lastCall.cacheBefore :
              /\ k \in DOMAIN TLE_CACHE
              /\ TLE_CACHE[k] = lastCall.cacheBefore[k]

\* a second entry, stored under the stations URL though the value came from
\* the alternate URL
C27_Witness ==
    /\ Called
    /\ lastCall.outcome = "return"
    /\ Requests = 2
    /\ lastCall.source # "bundled"
    /\ lastCall.url = FALLBACK_STATIONS_URL
    /\ lastCall.cacheBefore # EmptyMap
    /\ CallKey \notin DOMAIN lastCall.cacheBefore

(***************************************************************************)
(* The two scoring functions (under SpecStars)                             *)
(***************************************************************************)
\* C28: ISSPredictor._visibility_stars and utils.visibility_stars give the
\* same value for every peak elevation and duration, and the rating stored
\* in a window is the one utils.visibility_stars gives for the window's
\* peak elevation and duration
C28_ScoresAgree ==
    starsResult.done =>
        \A i \in 1..2 :
            /\ starsResult.predictor[i] = starsResult.utils[i]
            /\ starsResult.stored[i] = starsResult.utils[i]

\* one pair on the 40 degree threshold and one scoring 5
C28_Witness ==
    /\ starsResult.done
    /\ starsArgs[1].peak = 40
    /\ starsResult.stored[1] = 3
    /\ starsResult.utils[2] = 5

(***************************************************************************)
(* The windows of one pass (under SpecWin)                                 *)
(***************************************************************************)
IncreasingTimes ==
    \A i \in 1..(NSamples - 1) : sample_times_utc[i].t < sample_times_utc[i + 1].t

\* C29: with strictly increasing sample times, each returned window ends
\* strictly before the next one starts, a sample that is not visible lies
\* between them, and every window's peak elevation is at least min_elev_deg
C29_DisjointWindows ==
    (WinReturned /\ IncreasingTimes) =>
        /\ \A i \in 1..(Len(Windows) - 1) :
              /\ Windows[i].start_local.t < Windows[i + 1].start_local.t
              /\ Windows[i].end_local.t < Windows[i + 1].start_local.t
              /\ \E k \in (Windows[i].end_idx + 1)..(Windows[i + 1].start_idx - 1) :
                    ~SampleVisible(k)
        /\ \A i \in 1..Len(Windows) :
              Windows[i].peak_elevation_deg >= config.min_elev_deg

\* two windows one hidden sample apart, the first peaking on the threshold
C29_Witness ==
    /\ WinReturned
    /\ IncreasingTimes
    /\ Len(Windows) = 2
    /\ Windows[2].start_idx = Windows[1].end_idx + 2
    /\ Windows[1].peak_elevation_deg = config.min_elev_deg

(***************************************************************************)
(* The location cache over any sequence of resolve calls (under SpecGeo)   *)
(***************************************************************************)
Resolved == geoLast.outcome # "none"

\* C21: once a resolve has returned a Location, every later resolve whose
\* query strips to the same text returns an equal Location and does not call
\* the geocoder; a resolve that raises leaves the cache as it was
C21_ResolveCached ==
    Resolved =>
        /\ geoLast.hadReturned =>
              /\ geoLast.outcome = "return"
              /\ geoLast.value = geoLast.earlier
              /\ geoLast.geocodes = 0
        /\ geoLast.outcome = "raise" => geoCache = geoLast.cacheBefore

\* a padded query answered from the entry an earlier call had stored
C21_Witness ==
    /\ Resolved
    /\ geoLast.hadReturned
    /\ geoLast.query = <<" ", "M", " ">>
    /\ geoLast.value.query = <<"M">>
    /\ geoLast.geocodes = 0

(***************************************************************************)
(* send_mail (under SpecMail)                                              *)
(***************************************************************************)
Trace == mailResult.trace

Positions(call) == {i \in 1..Len(Trace) : Trace[i] = call}

Before(a, b) == \A j \in Positions(b) : \E i \in Positions(a) : i < j

HasCredentials == mailArgs.cfg.user # "" /\ mailArgs.cfg.password # ""

ValidConfig == mailArgs.cfg.host # "" /\ mailArgs.cfg.tls_mode \in {"ssl", "starttls"}

\* C30: in starttls mode starttls comes before any login and before
\* send_message; login, made when user and password are both set, comes
\* before send_message; a send_mail that returns has called send_message
\* exactly once; with an empty host or a tls_mode other than ssl and
\* starttls it raises EmailSendError without opening a connection
C30_SmtpOrder ==
    mailResult.done =>
        /\ mailArgs.cfg.tls_mode = "starttls" =>
              Before("starttls", "login") /\ Before("starttls", "send_message")
        /\ HasCredentials => Before("login", "send_message")
        /\ ~HasCredentials => Positions("login") = {}
        /\ mailResult.outcome = "return" =>
              Cardinality(Positions("send_message")) = 1
        /\ Cardinality(Positions("send_message")) <= 1
        /\ ~ValidConfig => mailResult.outcome = "raise" /\ Trace = <<>>

C30_Witness ==
    /\ mailResult.done
    /\ mailResult.outcome = "return"
    /\ mailArgs.cfg.tls_mode = "starttls"
    /\ Positions("login") # {}
    /\ Positions("starttls") # {}

====
